---- MODULE Spec2Model ----
(***************************************************************************)
(* WattTrace carbon-footprint analyzer core: counters, language detection, *)
(* the two AST walkers, the result aggregator and the analysis             *)
(* orchestrator with its parser registry.                                  *)
(*                                                                         *)
(* Syntax trees are records [type, text, num, fld, kids]: `type` is the    *)
(* tree-sitter node kind, `text` the identifier / operator text, `num` the *)
(* value of a numeric literal, `kids` the namedChildren in source order    *)
(* and `fld` their field names.  Source positions are not modelled.        *)
(***************************************************************************)
EXTENDS Integers, Sequences, FiniteSets, Bags, TLC

VARIABLES
    lang,               \* walker: language of the analyzer instance
    root,               \* walker: rootNode handed to analyze()
    pc,                 \* walker: position inside analyze()
    idx,                \* walker: index of the next top-level child
    functions,          \* AnalysisResult.functions
    globalOperations,   \* AnalysisResult.globalOperations
    assumptions,        \* AnalysisResult.assumptions
    variableConstants,  \* walker: the constant table
    observed,           \* last value read through a derived getter
    request,            \* detection: code, filePath and languageOverride
    initialized,        \* treeSitterManager: `initialized`
    extensionPath,      \* treeSitterManager: `extensionPath`
    parserCache,        \* treeSitterManager: keys of `parserCache`
    pending,            \* bag of the asynchronous calls suspended at an await
    initLog,            \* what initializeCarbonEstimator logged last
    returned,           \* bag of the results the estimate calls have returned
    parsers,            \* treeSitterManager: the Parser objects constructed
    sinceDispose        \* history: what happened since the last disposeTreeSitter

\* the Parser objects and the history kept beside them
objects == <<parsers, sinceDispose>>

registry == <<initialized, extensionPath, parserCache, pending, initLog, returned,
              objects>>

\* sinceDispose at load and after a disposeTreeSitter: `initialisations` counts
\* the Parser.init calls that resolved, `firstRoot` is the extPath of the first
\* initializeTreeSitter call that went past its guard ("" when there was none)
\* and `tornDown` says that disposeTreeSitter returned with no parse in flight
\* and initializeTreeSitter was not called since (`quiet`: with no call at all
\* in flight)
NoHistory ==
    [initialisations |-> 0, firstRoot |-> "", tornDown |-> FALSE, quiet |-> FALSE]

vars == <<lang, root, pc, idx, functions, globalOperations, assumptions,
          variableConstants, observed, request, registry>>

\* no request under way, and the module state of treeSitterManager at load
NoRequest == [code |-> [text |-> "", marks |-> {}], filePath |-> <<>>,
              languageOverride |-> ""]

RegistryAtLoad ==
    /\ initialized = FALSE
    /\ extensionPath = ""
    /\ parserCache = {}
    /\ pending = EmptyBag
    /\ initLog = ""
    /\ returned = EmptyBag
    /\ parsers = <<>>
    /\ sinceDispose = NoHistory

----------------------------------------------------------------------------
(* constants.ts *)

OpTypes == {"addition", "subtraction", "multiplication", "division",
            "assignment", "comparison", "array_access", "function_call",
            "memory_allocation", "conditional_branch", "io_operation",
            "network_operation"}

OPERATION_WEIGHTS ==
    [op \in OpTypes |->
        CASE op = "addition" -> 1
          [] op = "subtraction" -> 1
          [] op = "multiplication" -> 2
          [] op = "division" -> 3
          [] op = "assignment" -> 1
          [] op = "comparison" -> 1
          [] op = "array_access" -> 2
          [] op = "function_call" -> 5
          [] op = "memory_allocation" -> 10
          [] op = "conditional_branch" -> 1
          [] op = "io_operation" -> 50
          [] op = "network_operation" -> 100]

DEFAULT_LOOP_ITERATIONS == 100

DEFAULT_RECURSION_DEPTH == 10

IO_FUNCTIONS(l) ==
    CASE l = "python" -> {"print", "input", "open", "read", "write", "readline",
                          "readlines", "writelines", "close", "flush", "seek", "tell"}
      [] l = "java" -> {"println", "printf", "print", "read", "write", "readLine"}
      [] l = "c" -> {"printf", "scanf", "fprintf", "fscanf", "fopen", "fclose",
                     "fread", "fwrite", "puts", "gets", "getchar", "putchar",
                     "fgets", "fputs"}
      [] l = "cpp" -> {"cout", "cin", "cerr", "clog", "printf", "scanf", "getline"}
      [] l = "javascript" -> {"log", "error", "warn", "info", "debug", "trace",
                              "alert", "prompt", "confirm", "readFile", "writeFile",
                              "readFileSync", "writeFileSync"}
      [] OTHER -> {}

NETWORK_FUNCTIONS(l) ==
    CASE l = "python" -> {"request", "get", "post", "put", "delete", "patch",
                          "urlopen", "connect", "send", "recv", "socket",
                          "fetch", "download", "upload"}
      [] l = "java" -> {"HttpURLConnection", "URL", "Socket", "ServerSocket",
                        "HttpClient", "HttpRequest", "RestTemplate", "WebClient"}
      [] l = "c" -> {"socket", "connect", "send", "recv", "bind", "listen", "accept"}
      [] l = "cpp" -> {"socket", "connect", "send", "recv"}
      [] l = "javascript" -> {"fetch", "axios", "XMLHttpRequest", "WebSocket"}
      [] OTHER -> {}

ALLOC_FUNCTIONS(l) ==
    CASE l = "python" -> {"list", "dict", "set", "tuple", "bytearray", "array",
                          "zeros", "ones", "empty", "malloc", "calloc",
                          "DataFrame", "Series", "ndarray", "deepcopy", "copy"}
      [] l = "c" -> {"malloc", "calloc", "realloc", "free", "alloca"}
      [] l = "cpp" -> {"malloc", "calloc", "make_shared", "make_unique"}
      [] OTHER -> {}

----------------------------------------------------------------------------
(* models.ts: OperationCount *)

\* new OperationCount(): every kind present with count 0
NewOperationCount == [op \in OpTypes |-> 0]

\* OperationCount.add(opType, count)
Add(c, op, n) == [c EXCEPT ![op] = @ + n]

\* OperationCount.merge(other): the receiver after the call
Merge(c, other) == [op \in OpTypes |-> c[op] + other[op]]

ScaleAdds(c, factor) == [op \in OpTypes |-> c[op] + factor]

\* OperationCount.scale(factor): a new counter
Scale(c, factor) == [op \in OpTypes |-> c[op] * factor]

RECURSIVE WeightedSum(_, _)
WeightedSum(c, ops) ==
    IF ops = {} THEN 0
    ELSE LET op == CHOOSE o \in ops : TRUE
         IN c[op] * OPERATION_WEIGHTS[op] + WeightedSum(c, ops \ {op})

\* OperationCount.totalWeighted
TotalWeighted(c) == WeightedSum(c, OpTypes)

----------------------------------------------------------------------------
(* Syntax nodes (web-tree-sitter SyntaxNode) *)

\* `fld[i]` is the field name under which kids[i] hangs ("" when it has none)
Node(type, text, num, fld, kids) ==
    [type |-> type, text |-> text, num |-> num, fld |-> fld, kids |-> kids]

\* a node whose children carry no field names
RECURSIVE NoFields(_)
NoFields(n) == IF n = 0 THEN <<>> ELSE <<"">> \o NoFields(n - 1)

Plain(type, kids) == Node(type, "", 0, NoFields(Len(kids)), kids)

\* the absent node: what childForFieldName / find return when nothing matches
Nil == Node("nil", "", 0, <<>>, <<>>)

Kid(node, i) == IF i \in 1..Len(node.kids) THEN node.kids[i] ELSE Nil

\* a || b on nodes
Or(a, b) == IF a # Nil THEN a ELSE b

\* first named child satisfying a test on its position (Array.prototype.find)
FirstIndex(n, Test(_)) ==
    IF \E i \in 1..n : Test(i)
    THEN CHOOSE i \in 1..n : Test(i) /\ \A j \in 1..(i - 1) : ~Test(j)
    ELSE 0

FindKid(node, types) ==
    LET Is(i) == node.kids[i].type \in types
    IN Kid(node, FirstIndex(Len(node.kids), Is))

\* node.childForFieldName(field)
ChildForFieldName(node, field) ==
    LET Is(i) == node.fld[i] = field
    IN Kid(node, FirstIndex(Len(node.kids), Is))

----------------------------------------------------------------------------
(* The constant table: a Map<string, number> as a set of <<name, value>>  *)

TableHas(t, x) == \E p \in t : p[1] = x

TableGet(t, x) == (CHOOSE p \in t : p[1] = x)[2]

TableSet(t, x, v) == {p \in t : p[1] # x} \cup {<<x, v>>}

\* number | undefined
Undefined == [ok |-> FALSE, v |-> 0]

Some(n) == [ok |-> TRUE, v |-> n]

Max(a, b) == IF a >= b THEN a ELSE b

Abs(a) == IF a >= 0 THEN a ELSE -a

\* Math.floor(a / b) for b # 0
FloorDiv(a, b) ==
    IF b > 0 THEN a \div b ELSE (-a) \div (-b)

\* Math.ceil(a / b) for b # 0
CeilDiv(a, b) == -FloorDiv(-a, b)

\* the remainder operator of JavaScript: the sign of the dividend
JsRem(a, b) == IF a >= 0 THEN a % Abs(b) ELSE -((-a) % Abs(b))

\* a result of a walk: the counter returned and the assumptions pushed
NoOps == [ops |-> NewOperationCount, asm |-> <<>>]

RAdd(r, op, n) == [r EXCEPT !.ops = Add(@, op, n)]

RMerge(r, s) == [ops |-> Merge(r.ops, s.ops), asm |-> r.asm \o s.asm]

\* a counter returned by a walk that pushed no assumption
Counted(ops) == [ops |-> ops, asm |-> <<>>]

Assumption(kind, n, name) == [kind |-> kind, n |-> n, name |-> name]

----------------------------------------------------------------------------
(* Identifier spelling: String.prototype.includes needs the characters *)

Spell(name) ==
    CASE name = "print" -> <<"p", "r", "i", "n", "t">>
      [] name = "printf" -> <<"p", "r", "i", "n", "t", "f">>
      [] name = "read" -> <<"r", "e", "a", "d">>
      [] name = "write" -> <<"w", "r", "i", "t", "e">>
      [] name = "input" -> <<"i", "n", "p", "u", "t">>
      [] name = "open" -> <<"o", "p", "e", "n">>
      [] name = "request" -> <<"r", "e", "q", "u", "e", "s", "t">>
      [] name = "urlopen" -> <<"u", "r", "l", "o", "p", "e", "n">>
      [] name = "socket" -> <<"s", "o", "c", "k", "e", "t">>
      [] name = "fetch" -> <<"f", "e", "t", "c", "h">>
      [] name = "range" -> <<"r", "a", "n", "g", "e">>
      [] name = "len" -> <<"l", "e", "n">>
      [] name = "get" -> <<"g", "e", "t">>
      [] name = "reader" -> <<"r", "e", "a", "d", "e", "r">>
      [] name = "next" -> <<"n", "e", "x", "t">>
      [] name = "work" -> <<"w", "o", "r", "k">>
      [] name = "sorted" -> <<"s", "o", "r", "t", "e", "d">>
      [] name = "sum" -> <<"s", "u", "m">>
      [] name = "append" -> <<"a", "p", "p", "e", "n", "d">>
      [] name = "list" -> <<"l", "i", "s", "t">>
      [] name = "malloc" -> <<"m", "a", "l", "l", "o", "c">>
      [] name = "log" -> <<"l", "o", "g">>
      [] name = "console" -> <<"c", "o", "n", "s", "o", "l", "e">>
      [] name = "fs" -> <<"f", "s">>
      [] name = "http" -> <<"h", "t", "t", "p">>
      [] name = "curl_easy_perform" -> <<"c", "u", "r", "l", "_", "e", "a", "s", "y", "_", "p", "e", "r", "f", "o", "r", "m">>
      [] name = "std" -> <<"s", "t", "d">>
      [] name = "dev" -> <<"d", "e", "v">>
      [] name = "push" -> <<"p", "u", "s", "h">>
      [] name = "f" -> <<"f">>
      [] name = "g" -> <<"g">>
      [] name = "h" -> <<"h">>
      [] name = "i" -> <<"i">>
      [] name = "j" -> <<"j">>
      [] name = "x" -> <<"x">>
      [] name = "N" -> <<"N">>
      [] name = "M" -> <<"M">>
      [] OTHER -> <<>>

\* String.prototype.includes on spelled strings
Includes(full, sub) ==
    \E k \in 0..(Len(full) - Len(sub)) :
        \A j \in 1..Len(sub) : full[k + j] = sub[j]

\* parts.join('.')
RECURSIVE JoinDots(_)
JoinDots(parts) ==
    IF Len(parts) = 0 THEN <<>>
    ELSE Spell(parts[1])
         \o (IF Len(parts) = 1 THEN <<>> ELSE <<".">> \o JoinDots(Tail(parts)))

\* every other language has no entry or an empty one
IO_CALL_SUBSTRINGS(l) ==
    CASE l = "python" -> {<<"p", "r", "i", "n", "t">>,
                          <<"w", "r", "i", "t", "e">>,
                          <<"r", "e", "a", "d">>,
                          <<"i", "n", "p", "u", "t">>,
                          <<"o", "p", "e", "n">>}
      [] l = "java" -> {<<"S", "y", "s", "t", "e", "m", ".", "o", "u", "t">>,
                        <<"S", "y", "s", "t", "e", "m", ".", "e", "r", "r">>,
                        <<"S", "y", "s", "t", "e", "m", ".", "i", "n">>,
                        <<"S", "c", "a", "n", "n", "e", "r">>,
                        <<"B", "u", "f", "f", "e", "r", "e", "d", "R", "e", "a", "d", "e", "r">>,
                        <<"F", "i", "l", "e", "R", "e", "a", "d", "e", "r">>,
                        <<"F", "i", "l", "e", "W", "r", "i", "t", "e", "r">>,
                        <<"P", "r", "i", "n", "t", "W", "r", "i", "t", "e", "r">>}
      [] l = "javascript" -> {<<"c", "o", "n", "s", "o", "l", "e", ".", "l", "o", "g">>,
                              <<"c", "o", "n", "s", "o", "l", "e", ".", "e", "r", "r", "o", "r">>,
                              <<"c", "o", "n", "s", "o", "l", "e", ".", "w", "a", "r", "n">>,
                              <<"c", "o", "n", "s", "o", "l", "e", ".", "i", "n", "f", "o">>,
                              <<"c", "o", "n", "s", "o", "l", "e", ".", "d", "e", "b", "u", "g">>,
                              <<"c", "o", "n", "s", "o", "l", "e", ".", "t", "r", "a", "c", "e">>,
                              <<"d", "o", "c", "u", "m", "e", "n", "t", ".", "w", "r", "i", "t", "e">>,
                              <<"f", "s", ".">>,
                              <<"p", "r", "o", "c", "e", "s", "s", ".", "s", "t", "d", "o", "u", "t">>,
                              <<"p", "r", "o", "c", "e", "s", "s", ".", "s", "t", "d", "e", "r", "r">>,
                              <<"p", "r", "o", "c", "e", "s", "s", ".", "s", "t", "d", "i", "n">>}
      [] OTHER -> {}

NETWORK_CALL_SUBSTRINGS(l) ==
    CASE l = "python" -> {<<"r", "e", "q", "u", "e", "s", "t">>,
                          <<"u", "r", "l", "o", "p", "e", "n">>,
                          <<"s", "o", "c", "k", "e", "t">>,
                          <<"f", "e", "t", "c", "h">>}
      [] l = "cpp" -> {<<"b", "o", "o", "s", "t", ":", ":", "a", "s", "i", "o">>,
                       <<"c", "u", "r", "l", "_">>,
                       <<"h", "t", "t", "p", "l", "i", "b">>}
      [] l = "javascript" -> {<<"h", "t", "t", "p", ".", "r", "e", "q", "u", "e", "s", "t">>,
                              <<"h", "t", "t", "p", "s", ".", "r", "e", "q", "u", "e", "s", "t">>,
                              <<"n", "e", "t", ".", "c", "o", "n", "n", "e", "c", "t">>}
      [] OTHER -> {}

----------------------------------------------------------------------------
(* pythonTreeSitterAnalyzer.ts: constant resolution *)

\* PythonTreeSitterAnalyzer.getCallName ("" stands for undefined)
PyGetCallName(node) ==
    LET Name(funcNode) ==
            IF funcNode = Nil THEN ""
            ELSE IF funcNode.type = "identifier" THEN funcNode.text
            ELSE IF funcNode.type = "attribute"
                 THEN ChildForFieldName(funcNode, "attribute").text
            ELSE ""
    IN Name(ChildForFieldName(node, "function"))

\* PythonTreeSitterAnalyzer.getFullCallName: the dotted parts, outermost first
RECURSIVE PyAttributeParts(_)
PyAttributeParts(current) ==
    LET Part(attr) == IF attr = Nil THEN <<>> ELSE <<attr.text>>
    IN IF current.type = "attribute"
       THEN PyAttributeParts(ChildForFieldName(current, "object"))
            \o Part(ChildForFieldName(current, "attribute"))
       ELSE IF current.type = "identifier" THEN <<current.text>>
       ELSE <<>>

PyGetFullCallName(node) ==
    LET Joined(funcNode) ==
            IF funcNode = Nil THEN <<>> ELSE JoinDots(PyAttributeParts(funcNode))
    IN Joined(ChildForFieldName(node, "function"))

\* PythonTreeSitterAnalyzer.getCallArguments
PyGetCallArguments(callNode) ==
    LET Positional(argsNode) ==
            IF argsNode = Nil THEN <<>>
            ELSE SelectSeq(argsNode.kids,
                           LAMBDA c : c.type \notin {"keyword_argument",
                                                     "dictionary_splat", "list_splat"})
    IN Positional(ChildForFieldName(callNode, "arguments"))

\* PythonTreeSitterAnalyzer.resolveConstantExpr
RECURSIVE PyResolveConstantExpr(_, _)
PyResolveConstantExpr(node, vc) ==
    LET Binary(left, right, lv, rv) ==
            IF left # Nil /\ right # Nil /\ lv.ok /\ rv.ok
            THEN CASE node.text = "+" -> Some(lv.v + rv.v)
                   [] node.text = "-" -> Some(lv.v - rv.v)
                   [] node.text = "*" -> Some(lv.v * rv.v)
                   [] node.text = "//" ->
                        IF rv.v # 0 THEN Some(FloorDiv(lv.v, rv.v)) ELSE Undefined
                   [] node.text = "%" ->
                        IF rv.v # 0 THEN Some(JsRem(lv.v, rv.v)) ELSE Undefined
                   [] OTHER -> Undefined
            ELSE Undefined
        Unary(operand, val) ==
            IF operand # Nil /\ val.ok /\ node.text = "-" THEN Some(-val.v)
            ELSE IF operand # Nil /\ val.ok /\ node.text = "+" THEN Some(val.v)
            ELSE Undefined
    IN
    IF node = Nil THEN Undefined
    ELSE IF node.type = "integer" THEN Some(node.num)
    ELSE IF node.type = "float" THEN Some(node.num)
    ELSE IF node.type = "identifier"
         THEN IF TableHas(vc, node.text) THEN Some(TableGet(vc, node.text))
              ELSE Undefined
    ELSE IF node.type = "parenthesized_expression"
         THEN IF Len(node.kids) > 0 THEN PyResolveConstantExpr(node.kids[1], vc)
              ELSE Undefined
    ELSE IF node.type = "binary_operator"
         THEN Binary(ChildForFieldName(node, "left"),
                     ChildForFieldName(node, "right"),
                     PyResolveConstantExpr(ChildForFieldName(node, "left"), vc),
                     PyResolveConstantExpr(ChildForFieldName(node, "right"), vc))
    ELSE IF node.type = "unary_operator"
         THEN Unary(FindKid(node, {"integer", "float", "identifier"}),
                    PyResolveConstantExpr(
                        FindKid(node, {"integer", "float", "identifier"}), vc))
    ELSE IF node.type = "call"
         THEN IF PyGetCallName(node) = "len" THEN Some(DEFAULT_LOOP_ITERATIONS)
              ELSE Undefined
    ELSE Undefined

\* PythonTreeSitterAnalyzer.extractConstants: pre-order, children in order
RECURSIVE PyExtractConstants(_, _)
RECURSIVE PyExtractConstantsKids(_, _, _)
PyExtractConstants(node, vc) ==
    LET Here(left, right, val) ==
            IF node.type = "assignment" /\ left # Nil /\ right # Nil
               /\ left.type = "identifier" /\ val.ok
            THEN TableSet(vc, left.text, val.v)
            ELSE vc
    IN PyExtractConstantsKids(node.kids, 1,
            Here(ChildForFieldName(node, "left"), ChildForFieldName(node, "right"),
                 PyResolveConstantExpr(ChildForFieldName(node, "right"), vc)))

PyExtractConstantsKids(kids, i, vc) ==
    LET After(next) == IF next = vc THEN PyExtractConstantsKids(kids, i + 1, vc)
                       ELSE PyExtractConstantsKids(kids, i + 1, next)
    IN IF i > Len(kids) THEN vc ELSE After(PyExtractConstants(kids[i], vc))

----------------
(* pythonTreeSitterAnalyzer.ts: loop iteration estimation *)

\* PythonTreeSitterAnalyzer.estimateForIterations
RECURSIVE PyEstimateForIterations(_, _)
PyEstimateForIterations(iterable, vc) ==
    LET Range(args, r) ==
            IF Len(args) = 1 /\ r[1].ok THEN Max(0, r[1].v)
            ELSE IF Len(args) = 2 /\ r[1].ok /\ r[2].ok THEN Max(0, r[2].v - r[1].v)
            ELSE IF Len(args) = 3 /\ r[1].ok /\ r[2].ok /\ r[3].ok /\ r[3].v # 0
                 THEN Max(0, CeilDiv(r[2].v - r[1].v, r[3].v))
            ELSE IF Len(args) = 1 /\ args[1].type = "identifier"
                    /\ TableHas(vc, args[1].text)
                 THEN TableGet(vc, args[1].text)
            ELSE DEFAULT_LOOP_ITERATIONS
        Sized(size) == IF size # 0 THEN size ELSE DEFAULT_LOOP_ITERATIONS
        Of(callName, args, r) ==
            IF iterable.type = "call" /\ callName = "range"
            THEN Range(args, r)
            ELSE IF iterable.type = "call" /\ callName = "enumerate"
            THEN IF Len(args) > 0 /\ args[1].type = "call"
                    /\ PyGetCallName(args[1]) = "range"
                 THEN PyEstimateForIterations(args[1], vc)
                 ELSE DEFAULT_LOOP_ITERATIONS
            ELSE IF iterable.type = "call" /\ callName = "zip"
            THEN DEFAULT_LOOP_ITERATIONS
            ELSE IF iterable.type = "identifier" /\ TableHas(vc, iterable.text)
            THEN TableGet(vc, iterable.text)
            ELSE IF iterable.type = "string"
            THEN Sized(Max(0, iterable.num - 2))
            ELSE IF iterable.type \in {"list", "tuple"}
            THEN Len(iterable.kids)
            ELSE IF iterable.type = "dictionary"
            THEN Len(SelectSeq(iterable.kids, LAMBDA c : c.type = "pair"))
            ELSE DEFAULT_LOOP_ITERATIONS
    IN Of(PyGetCallName(iterable), PyGetCallArguments(iterable),
          [i \in 1..Len(PyGetCallArguments(iterable)) |->
               PyResolveConstantExpr(PyGetCallArguments(iterable)[i], vc)])

\* the `x += S` search of estimateWhileIterations: the first body statement
\* that increments varName by a resolved positive step decides
RECURSIVE PyWhileStep(_, _, _, _)
PyWhileStep(stmts, i, varName, vc) ==
    LET Increment(stmt, augLeft, augRight, step) ==
            IF stmt.type = "augmented_assignment" /\ augLeft # Nil
               /\ augLeft.text = varName /\ stmt.text = "+="
               /\ augRight # Nil /\ step.ok /\ step.v > 0
            THEN step
            ELSE PyWhileStep(stmts, i + 1, varName, vc)
    IN IF i > Len(stmts) THEN Undefined
       ELSE Increment(stmts[i], ChildForFieldName(stmts[i], "left"),
                      ChildForFieldName(stmts[i], "right"),
                      PyResolveConstantExpr(ChildForFieldName(stmts[i], "right"), vc))

\* PythonTreeSitterAnalyzer.estimateWhileIterations
PyEstimateWhileIterations(condition, whileNode, vc) ==
    LET Start(name) == IF TableHas(vc, name) THEN Some(TableGet(vc, name))
                       ELSE Undefined
        Of(leftExpr, op, bound, step, start) ==
            IF condition.type = "comparison_operator" /\ Len(condition.kids) >= 2
               /\ leftExpr.type = "identifier" /\ condition.num = 1
            THEN IF op \in {"<", "<="} /\ bound.ok
                 THEN (IF step.ok THEN Max(1, FloorDiv(bound.v, step.v)) ELSE bound.v)
                 ELSE IF op \in {">", ">="} /\ bound.ok /\ start.ok
                 THEN Max(1, Abs(start.v - bound.v))
                 ELSE IF op = "<=" THEN 20
                 ELSE DEFAULT_LOOP_ITERATIONS
            ELSE DEFAULT_LOOP_ITERATIONS
    IN Of(Kid(condition, 1), condition.text,
          PyResolveConstantExpr(Kid(condition, Len(condition.kids)), vc),
          PyWhileStep(ChildForFieldName(whileNode, "body").kids, 1,
                      Kid(condition, 1).text, vc),
          Start(Kid(condition, 1).text))

----------------
(* pythonTreeSitterAnalyzer.ts: expressions *)

\* the first branch of the call classification that applies
PyCallKind(callName, fullCallName) ==
    IF callName \in IO_FUNCTIONS("python")
       \/ (fullCallName # <<>>
           /\ \E io \in IO_CALL_SUBSTRINGS("python") : Includes(fullCallName, io))
    THEN "io_operation"
    ELSE IF callName \in NETWORK_FUNCTIONS("python")
            \/ (fullCallName # <<>>
                /\ \E net \in NETWORK_CALL_SUBSTRINGS("python") :
                       Includes(fullCallName, net))
    THEN "network_operation"
    ELSE IF callName \in ALLOC_FUNCTIONS("python") THEN "memory_allocation"
    ELSE IF callName \in {"sorted", "sort"} THEN "sort"
    ELSE IF callName \in {"sum", "min", "max", "any", "all"} THEN "reduce"
    ELSE IF callName = "append" THEN "memory_allocation"
    ELSE "function_call"

\* PythonTreeSitterAnalyzer.analyzeExpression (the node kinds the trees use;
\* every other kind takes the default branch)
RECURSIVE PyAnalyzeExpression(_, _)
RECURSIVE PyAnalyzeExpressions(_, _, _)
PyAnalyzeExpression(node, multiplier) ==
    LET ops == NewOperationCount
        Sub(n) == IF n = Nil THEN ops ELSE PyAnalyzeExpression(n, multiplier)
        All(kids) == PyAnalyzeExpressions(kids, 1, multiplier)
    IN
    IF node = Nil THEN ops
    ELSE CASE node.type = "binary_operator" ->
            Merge(Merge(
                CASE node.text = "+" -> Add(ops, "addition", multiplier)
                  [] node.text = "-" -> Add(ops, "subtraction", multiplier)
                  [] node.text \in {"*", "@"} -> Add(ops, "multiplication", multiplier)
                  [] node.text \in {"/", "//", "%"} -> Add(ops, "division", multiplier)
                  [] node.text = "**" -> Add(ops, "multiplication", multiplier * 10)
                  [] OTHER -> Add(ops, "addition", multiplier),
                Sub(ChildForFieldName(node, "left"))),
                Sub(ChildForFieldName(node, "right")))
      [] node.type = "comparison_operator" ->
            Merge(Add(ops, "comparison", multiplier * Max(1, node.num)),
                  All(node.kids))
      [] node.type = "boolean_operator" ->
            Merge(Merge(Add(ops, "comparison", multiplier),
                        Sub(ChildForFieldName(node, "left"))),
                  Sub(ChildForFieldName(node, "right")))
      [] node.type = "not_operator" ->
            Merge(Add(ops, "comparison", multiplier), Sub(Kid(node, 1)))
      [] node.type = "call" ->
            LET Own(callName, kind) ==
                    IF callName = "" THEN Add(ops, "function_call", multiplier)
                    ELSE IF kind = "sort"
                    THEN Add(Add(ops, "comparison",
                                 multiplier * DEFAULT_LOOP_ITERATIONS * 7),
                             "assignment", multiplier * DEFAULT_LOOP_ITERATIONS * 7)
                    ELSE IF kind = "reduce"
                    THEN Add(Add(ops, "addition",
                                 multiplier * DEFAULT_LOOP_ITERATIONS),
                             "comparison", multiplier * DEFAULT_LOOP_ITERATIONS)
                    ELSE Add(ops, kind, multiplier)
                Arg(a) == IF a.type = "keyword_argument"
                          THEN ChildForFieldName(a, "value") ELSE a
                Args(argsNode) ==
                    IF argsNode = Nil THEN ops
                    ELSE All([i \in 1..Len(argsNode.kids) |-> Arg(argsNode.kids[i])])
            IN Merge(Own(PyGetCallName(node),
                         PyCallKind(PyGetCallName(node), PyGetFullCallName(node))),
                     Args(ChildForFieldName(node, "arguments")))
      [] node.type = "subscript" ->
            Merge(Merge(Add(ops, "array_access", multiplier),
                        Sub(Or(ChildForFieldName(node, "value"), Kid(node, 1)))),
                  Sub(Or(ChildForFieldName(node, "subscript"), Kid(node, 2))))
      [] node.type = "unary_operator" ->
            Merge(Add(ops, "addition", multiplier), Sub(Kid(node, 1)))
      [] node.type = "attribute" ->
            Sub(Or(ChildForFieldName(node, "object"), Kid(node, 1)))
      [] node.type \in {"list", "tuple", "set"} ->
            Merge(IF Len(node.kids) > 0
                  THEN Add(Add(ops, "memory_allocation", multiplier),
                           "assignment", multiplier * Len(node.kids))
                  ELSE ops,
                  All(node.kids))
      [] node.type \in {"parenthesized_expression", "await", "yield",
                        "list_splat", "dictionary_splat"} ->
            Sub(Kid(node, 1))
      [] node.type = "assignment" ->
            Merge(Add(ops, "assignment", multiplier),
                  Sub(ChildForFieldName(node, "right")))
      [] node.type \in {"identifier", "integer", "float", "true", "false",
                        "none", "ellipsis", "comment"} -> ops
      [] OTHER -> All(node.kids)

PyAnalyzeExpressions(kids, i, multiplier) ==
    IF i > Len(kids) THEN NewOperationCount
    ELSE Merge(PyAnalyzeExpression(kids[i], multiplier),
               PyAnalyzeExpressions(kids, i + 1, multiplier))

----------------------------------------------------------------------------
(* pythonTreeSitterAnalyzer.ts: statements *)

\* PythonTreeSitterAnalyzer.isStatementNode
PyIsStatementNode(node) ==
    node.type \in {"expression_statement", "assignment", "augmented_assignment",
                   "return_statement", "if_statement", "for_statement",
                   "while_statement", "try_statement", "with_statement",
                   "delete_statement", "raise_statement", "pass_statement",
                   "break_statement", "continue_statement", "global_statement",
                   "nonlocal_statement", "assert_statement", "import_statement",
                   "import_from_statement", "function_definition",
                   "class_definition", "decorated_definition"}

\* the body of an else_clause: its `body` field, else its first block
PyElseBody(clause) ==
    Or(ChildForFieldName(clause, "body"), FindKid(clause, {"block"}))

\* PythonTreeSitterAnalyzer.analyzeNode: the counter returned and the
\* assumptions pushed on the result, in order
RECURSIVE PyAnalyzeNode(_, _, _)
RECURSIVE PyAnalyzeNodes(_, _, _, _)
PyAnalyzeNode(node, loopMultiplier, vc) ==
    LET Block(b, m) == IF b = Nil THEN NoOps ELSE PyAnalyzeNodes(b.kids, 1, m, vc)
        Else(elseClause) ==
            IF elseClause = Nil THEN NoOps
            ELSE Block(PyElseBody(elseClause), loopMultiplier)
        Compound(r) ==
            CASE node.type = "assignment" -> r
              [] node.text = "+=" -> RAdd(r, "addition", loopMultiplier)
              [] node.text = "-=" -> RAdd(r, "subtraction", loopMultiplier)
              [] node.text \in {"*=", "@="} -> RAdd(r, "multiplication", loopMultiplier)
              [] node.text \in {"/=", "//=", "%="} -> RAdd(r, "division", loopMultiplier)
              [] OTHER -> r
        LoopHead(iterations, note) ==
            [ops |-> Add(NewOperationCount, "comparison", loopMultiplier * iterations),
             asm |-> <<note>>]
        For(iterations) ==
            RMerge(LoopHead(iterations,
                        IF iterations # DEFAULT_LOOP_ITERATIONS
                        THEN Assumption("for-resolved", iterations, "")
                        ELSE Assumption("for-unknown", DEFAULT_LOOP_ITERATIONS, "")),
                   Block(ChildForFieldName(node, "body"), loopMultiplier * iterations))
        While(iterations, condition) ==
            RMerge(RMerge(LoopHead(iterations, Assumption("while", iterations, "")),
                          condition),
                   Block(ChildForFieldName(node, "body"), loopMultiplier * iterations))
        If(condition) ==
            RMerge(RMerge(RAdd(NoOps, "conditional_branch", loopMultiplier), condition),
                   Block(Or(ChildForFieldName(node, "consequence"),
                            ChildForFieldName(node, "body")), loopMultiplier))
        Alternative(alternative, elseBody) ==
            IF alternative.type = "elif_clause"
            THEN PyAnalyzeNode(alternative, loopMultiplier, vc)
            ELSE IF alternative.type = "else_clause"
            THEN Block(Or(elseBody, alternative), loopMultiplier)
            ELSE NoOps
        Statement(kids) ==
            IF node.type = "assert_statement"
            THEN RMerge(RAdd(NoOps, "comparison", loopMultiplier), kids)
            ELSE kids
    IN
    IF node = Nil THEN NoOps
    ELSE CASE node.type \in {"assignment", "augmented_assignment"} ->
            Compound(RMerge(RAdd(NoOps, "assignment", loopMultiplier),
                            Counted(PyAnalyzeExpression(ChildForFieldName(node, "right"),
                                                        loopMultiplier))))
      [] node.type = "for_statement" ->
            RMerge(For(IF ChildForFieldName(node, "right") # Nil
                       THEN PyEstimateForIterations(ChildForFieldName(node, "right"), vc)
                       ELSE DEFAULT_LOOP_ITERATIONS),
                   Else(FindKid(node, {"else_clause"})))
      [] node.type \in {"while_statement", "if_statement", "elif_clause"} ->
            IF node.type = "while_statement"
            THEN RMerge(While(IF ChildForFieldName(node, "condition") # Nil
                              THEN PyEstimateWhileIterations(
                                       ChildForFieldName(node, "condition"), node, vc)
                              ELSE DEFAULT_LOOP_ITERATIONS,
                              Counted(PyAnalyzeExpression(
                                          ChildForFieldName(node, "condition"),
                                          loopMultiplier))),
                        Else(FindKid(node, {"else_clause"})))
            ELSE RMerge(If(Counted(PyAnalyzeExpression(
                                       ChildForFieldName(node, "condition"),
                                       loopMultiplier))),
                        Alternative(ChildForFieldName(node, "alternative"),
                                    PyElseBody(ChildForFieldName(node, "alternative"))))
      [] node.type \in {"expression_statement", "return_statement",
                        "assert_statement"} ->
            Statement(Counted(PyAnalyzeExpressions(node.kids, 1, loopMultiplier)))
      [] node.type = "delete_statement" ->
            RAdd(NoOps, "memory_allocation", loopMultiplier)
      [] node.type = "raise_statement" ->
            RAdd(NoOps, "function_call", loopMultiplier)
      [] node.type \in {"type_alias_statement"} ->
            RAdd(NoOps, "assignment", loopMultiplier)
      [] node.type \in {"global_statement", "nonlocal_statement", "pass_statement",
                        "break_statement", "continue_statement",
                        "import_statement", "import_from_statement",
                        "function_definition", "class_definition",
                        "decorated_definition"} -> NoOps
      [] OTHER ->
            PyAnalyzeNodes(SelectSeq(node.kids, PyIsStatementNode), 1,
                           loopMultiplier, vc)

PyAnalyzeNodes(stmts, i, loopMultiplier, vc) ==
    IF i > Len(stmts) THEN NoOps
    ELSE RMerge(PyAnalyzeNode(stmts[i], loopMultiplier, vc),
                PyAnalyzeNodes(stmts, i + 1, loopMultiplier, vc))

\* PythonTreeSitterAnalyzer.walkForCalls: func.isRecursive after the walk
RECURSIVE PyCallsItself(_, _)
PyCallsItself(node, funcName) ==
    (node.type = "call" /\ PyGetCallName(node) # ""
        /\ PyGetCallName(node) = funcName)
    \/ \E i \in 1..Len(node.kids) : PyCallsItself(node.kids[i], funcName)

\* PythonTreeSitterAnalyzer.getMaxLoopDepth
RECURSIVE PyGetMaxLoopDepth(_, _)
RECURSIVE PyMaxLoopDepthKids(_, _, _, _)
PyGetMaxLoopDepth(node, currentDepth) ==
    PyMaxLoopDepthKids(node.kids, 1, currentDepth, currentDepth)

PyMaxLoopDepthKids(kids, i, currentDepth, maxDepth) ==
    IF i > Len(kids) THEN maxDepth
    ELSE PyMaxLoopDepthKids(kids, i + 1, currentDepth,
            Max(maxDepth,
                PyGetMaxLoopDepth(kids[i],
                    IF kids[i].type \in {"for_statement", "while_statement"}
                    THEN currentDepth + 1 ELSE currentDepth)))

\* FunctionAnalysis: the fields the results are compared on
FunctionAnalysis(name, operations, isRecursive, maxNesting) ==
    [name |-> name, operations |-> operations, isRecursive |-> isRecursive,
     maxNesting |-> maxNesting]

\* PythonTreeSitterAnalyzer.analyzeFunction: the FunctionAnalysis returned and
\* the assumptions pushed; the constant table is restored on return
PyAnalyzeFunction(node, className, vc) ==
    LET Name(nameNode) == IF nameNode # Nil THEN nameNode.text ELSE "unknown"
        Built(funcName, isRecursive, walked) ==
            [func |-> FunctionAnalysis(<<className, funcName>>,
                                       IF isRecursive
                                       THEN Scale(walked.ops, DEFAULT_RECURSION_DEPTH)
                                       ELSE walked.ops,
                                       isRecursive, PyGetMaxLoopDepth(node, 0)),
             asm |-> walked.asm \o
                     (IF isRecursive
                      THEN <<Assumption("recursive", DEFAULT_RECURSION_DEPTH, funcName)>>
                      ELSE <<>>)]
    IN Built(Name(ChildForFieldName(node, "name")),
             PyCallsItself(node, Name(ChildForFieldName(node, "name"))),
             PyAnalyzeNodes(ChildForFieldName(node, "body").kids, 1, 1,
                            PyExtractConstants(node, vc)))

\* PythonTreeSitterAnalyzer.analyzeClass: the functions pushed and the
\* assumptions pushed with them
RECURSIVE PyAnalyzeClassItems(_, _, _, _)
PyAnalyzeClassItems(className, items, i, vc) ==
    LET Def(item) == IF item.type = "function_definition" THEN item
                     ELSE IF item.type = "decorated_definition"
                     THEN FindKid(item, {"function_definition"})
                     ELSE Nil
        Push(one, rest) ==
            [funcs |-> <<one.func>> \o rest.funcs, asm |-> one.asm \o rest.asm]
    IN IF i > Len(items) THEN [funcs |-> <<>>, asm |-> <<>>]
       ELSE IF Def(items[i]) = Nil
       THEN PyAnalyzeClassItems(className, items, i + 1, vc)
       ELSE Push(PyAnalyzeFunction(Def(items[i]), className, vc),
                 PyAnalyzeClassItems(className, items, i + 1, vc))

PyAnalyzeClass(classNode, vc) ==
    LET Name(nameNode) == IF nameNode # Nil /\ nameNode.text # "" THEN nameNode.text
                          ELSE "UnknownClass"
    IN PyAnalyzeClassItems(Name(ChildForFieldName(classNode, "name")),
                           ChildForFieldName(classNode, "body").kids, 1, vc)

----------------
(* cFamilyTreeSitterAnalyzer.ts: constant resolution *)

\* CFamilyTreeSitterAnalyzer.isNumberLiteral
IsNumberLiteral(node) ==
    node.type \in {"number", "number_literal", "decimal_integer_literal",
                   "integer_literal", "hex_integer_literal",
                   "octal_integer_literal", "binary_integer_literal",
                   "decimal_floating_point_literal", "float_literal"}

\* CFamilyTreeSitterAnalyzer.isVariableDeclaration
IsVariableDeclaration(node) ==
    node.type \in {"variable_declaration", "lexical_declaration",
                   "local_variable_declaration", "declaration"}

\* CFamilyTreeSitterAnalyzer.isBlockNode
IsBlockNode(node) ==
    node.type \in {"compound_statement", "statement_block", "block",
                   "class_body", "switch_body", "switch_block"}

\* CFamilyTreeSitterAnalyzer.getStatementBody
GetStatementBody(node) ==
    Or(ChildForFieldName(node, "body"),
       FindKid(node, {"compound_statement", "statement_block", "block",
                      "class_body", "switch_body", "switch_block"}))

\* CFamilyTreeSitterAnalyzer.getDeclaratorName ("" stands for undefined)
RECURSIVE GetDeclaratorName(_)
GetDeclaratorName(node) ==
    LET Inner(inner) == IF inner # Nil THEN GetDeclaratorName(inner) ELSE ""
    IN IF node.type = "identifier" THEN node.text
       ELSE IF node.type \in {"variable_declarator", "init_declarator"}
       THEN Inner(Or(ChildForFieldName(node, "name"),
                     ChildForFieldName(node, "declarator")))
       ELSE IF node.type = "pointer_declarator"
       THEN Inner(ChildForFieldName(node, "declarator"))
       ELSE ""

\* CFamilyTreeSitterAnalyzer.resolveConstantExpr
RECURSIVE CResolveConstantExpr(_, _)
CResolveConstantExpr(node, vc) ==
    LET Binary(left, right, lv, rv) ==
            IF left # Nil /\ right # Nil /\ lv.ok /\ rv.ok
            THEN CASE node.text = "+" -> Some(lv.v + rv.v)
                   [] node.text = "-" -> Some(lv.v - rv.v)
                   [] node.text = "*" -> Some(lv.v * rv.v)
                   [] node.text = "/" ->
                        IF rv.v # 0 THEN Some(FloorDiv(lv.v, rv.v)) ELSE Undefined
                   [] node.text = "%" ->
                        IF rv.v # 0 THEN Some(JsRem(lv.v, rv.v)) ELSE Undefined
                   [] OTHER -> Undefined
            ELSE Undefined
        Unary(operand) ==
            IF operand # Nil /\ IsNumberLiteral(operand) /\ node.text = "-"
            THEN Some(-operand.num)
            ELSE IF operand # Nil /\ IsNumberLiteral(operand) /\ node.text = "+"
            THEN Some(operand.num)
            ELSE Undefined
    IN
    IF node = Nil THEN Undefined
    ELSE IF IsNumberLiteral(node) THEN Some(node.num)
    ELSE IF node.type = "identifier"
         THEN IF TableHas(vc, node.text) THEN Some(TableGet(vc, node.text))
              ELSE Undefined
    ELSE IF node.type = "parenthesized_expression"
         THEN IF Len(node.kids) > 0 THEN CResolveConstantExpr(node.kids[1], vc)
              ELSE Undefined
    ELSE IF node.type = "binary_expression"
         THEN Binary(ChildForFieldName(node, "left"),
                     ChildForFieldName(node, "right"),
                     CResolveConstantExpr(ChildForFieldName(node, "left"), vc),
                     CResolveConstantExpr(ChildForFieldName(node, "right"), vc))
    ELSE IF node.type = "unary_expression" THEN Unary(Kid(node, 1))
    ELSE Undefined

\* CFamilyTreeSitterAnalyzer.extractFromDeclaration
RECURSIVE ExtractFromDeclaration(_, _, _)
ExtractFromDeclaration(kids, i, vc) ==
    LET Declared(nameNode, valueNode, name, val) ==
            IF nameNode # Nil /\ valueNode # Nil /\ name # "" /\ val.ok
            THEN TableSet(vc, name, val.v)
            ELSE vc
    IN IF i > Len(kids) THEN vc
       ELSE ExtractFromDeclaration(kids, i + 1,
                Declared(Or(ChildForFieldName(kids[i], "name"),
                            ChildForFieldName(kids[i], "declarator")),
                         ChildForFieldName(kids[i], "value"),
                         GetDeclaratorName(Or(ChildForFieldName(kids[i], "name"),
                                              ChildForFieldName(kids[i], "declarator"))),
                         CResolveConstantExpr(ChildForFieldName(kids[i], "value"), vc)))

\* the assignment_expression case of extractConstants
AssignedConstant(node, vc) ==
    LET Assigned(left, right, val) ==
            IF node.type = "assignment_expression" /\ left # Nil /\ right # Nil
               /\ left.type = "identifier" /\ val.ok
            THEN TableSet(vc, left.text, val.v)
            ELSE vc
    IN Assigned(ChildForFieldName(node, "left"), ChildForFieldName(node, "right"),
                CResolveConstantExpr(ChildForFieldName(node, "right"), vc))

\* CFamilyTreeSitterAnalyzer.extractConstants
RECURSIVE CExtractConstants(_, _)
RECURSIVE CExtractConstantsKids(_, _, _)
CExtractConstants(node, vc) ==
    CExtractConstantsKids(node.kids, 1,
        AssignedConstant(node, IF IsVariableDeclaration(node)
                               THEN ExtractFromDeclaration(node.kids, 1, vc) ELSE vc))

CExtractConstantsKids(kids, i, vc) ==
    LET After(next) == IF next = vc THEN CExtractConstantsKids(kids, i + 1, vc)
                       ELSE CExtractConstantsKids(kids, i + 1, next)
    IN IF i > Len(kids) THEN vc ELSE After(CExtractConstants(kids[i], vc))

----------------------------------------------------------------------------
(* cFamilyTreeSitterAnalyzer.ts: loop iteration estimation *)

\* IEEE values a division by a zero step produces
Infinity == "Infinity"

NaN == "NaN"

\* Math.max(0, Math.ceil(x / step))
MaxZeroCeil(x, step) ==
    IF step # 0 THEN Max(0, CeilDiv(x, step))
    ELSE IF x > 0 THEN Infinity
    ELSE IF x < 0 THEN 0
    ELSE NaN

\* CFamilyTreeSitterAnalyzer.extractInitValue: the first child with a `value`
\* field decides, then an assignment_expression initializer
ExtractInitValue(init, vc) ==
    LET HasValue(i) == ChildForFieldName(init.kids[i], "value") # Nil
        Of(k) ==
            IF k # 0
            THEN CResolveConstantExpr(ChildForFieldName(init.kids[k], "value"), vc)
            ELSE IF init.type = "assignment_expression"
            THEN CResolveConstantExpr(ChildForFieldName(init, "right"), vc)
            ELSE Undefined
    IN Of(FirstIndex(Len(init.kids), HasValue))

\* `resolveConstantExpr(right) ?? 1` of an augmented assignment
StepOf(aug, vc) ==
    LET OrOne(right, val) == IF right # Nil /\ val.ok THEN val.v ELSE 1
    IN OrOne(ChildForFieldName(aug, "right"),
             CResolveConstantExpr(ChildForFieldName(aug, "right"), vc))

\* the step of the first update or augmented assignment under `update`
ListedStep(update, k, vc) ==
    IF k = 0 THEN 1
    ELSE IF update.kids[k].type = "update_expression" THEN 1
    ELSE StepOf(update.kids[k], vc)

\* extractStep on the `update` child of the loop
StepOfUpdate(update, vc) ==
    LET IsStep(i) == update.kids[i].type \in {"update_expression",
                                              "augmented_assignment_expression"}
    IN IF update = Nil THEN 1
       ELSE IF update.type = "update_expression" THEN 1
       ELSE IF update.type = "augmented_assignment_expression" THEN StepOf(update, vc)
       ELSE ListedStep(update, FirstIndex(Len(update.kids), IsStep), vc)

\* CFamilyTreeSitterAnalyzer.extractStep
ExtractStep(forNode, vc) == StepOfUpdate(ChildForFieldName(forNode, "update"), vc)

\* the estimate of a loop whose condition compares `left` with `right`
ComparedIterations(op, right, init, initVal, endVal, stepVal, leftVal, vc) ==
    LET Bounded(startVal) ==
            IF endVal.ok /\ op = "<" THEN MaxZeroCeil(endVal.v - startVal, stepVal)
            ELSE IF endVal.ok /\ op = "<="
            THEN MaxZeroCeil(endVal.v - startVal + 1, stepVal)
            ELSE IF endVal.ok /\ op = ">" THEN MaxZeroCeil(startVal - endVal.v, stepVal)
            ELSE IF endVal.ok /\ op = ">="
            THEN MaxZeroCeil(startVal - endVal.v + 1, stepVal)
            ELSE IF leftVal.ok /\ right.type = "identifier" /\ TableHas(vc, right.text)
                    /\ op = "<"
            THEN Max(0, TableGet(vc, right.text) - leftVal.v)
            ELSE IF leftVal.ok /\ right.type = "identifier" /\ TableHas(vc, right.text)
                    /\ op = "<="
            THEN Max(0, TableGet(vc, right.text) - leftVal.v + 1)
            ELSE DEFAULT_LOOP_ITERATIONS
    IN Bounded(IF init # Nil /\ initVal.ok THEN initVal.v ELSE 0)

\* estimateForIterations on the `condition` child of the loop
ConditionIterations(forNode, condition, init, vc) ==
    IF condition = Nil THEN DEFAULT_LOOP_ITERATIONS
    ELSE IF condition.type = "binary_expression"
            /\ ChildForFieldName(condition, "left") # Nil
            /\ ChildForFieldName(condition, "right") # Nil
    THEN ComparedIterations(condition.text, ChildForFieldName(condition, "right"),
             init, ExtractInitValue(init, vc),
             CResolveConstantExpr(ChildForFieldName(condition, "right"), vc),
             ExtractStep(forNode, vc),
             CResolveConstantExpr(ChildForFieldName(condition, "left"), vc), vc)
    ELSE DEFAULT_LOOP_ITERATIONS

\* CFamilyTreeSitterAnalyzer.estimateForIterations
CEstimateForIterations(forNode, vc) ==
    ConditionIterations(forNode, ChildForFieldName(forNode, "condition"),
                        Or(ChildForFieldName(forNode, "initializer"),
                           ChildForFieldName(forNode, "init")), vc)

\* CFamilyTreeSitterAnalyzer.estimateWhileIterations
CEstimateWhileIterations(whileNode, vc) ==
    LET Unwrapped(condition) ==
            IF condition.type = "parenthesized_expression" /\ Len(condition.kids) = 1
            THEN condition.kids[1] ELSE condition
        Bounded(op, name, rightVal) ==
            IF op \in {"<", "<="}
            THEN (IF TableHas(vc, name)
                  THEN Max(1, Abs(rightVal.v - TableGet(vc, name)))
                  ELSE IF rightVal.v > 0 THEN rightVal.v ELSE DEFAULT_LOOP_ITERATIONS)
            ELSE IF op \in {">", ">="} /\ TableHas(vc, name)
            THEN Max(1, TableGet(vc, name) - rightVal.v)
            ELSE IF op = "<=" THEN 20
            ELSE DEFAULT_LOOP_ITERATIONS
        Compared(cond, left, right, rightVal) ==
            IF cond.type = "binary_expression" /\ left # Nil /\ right # Nil
               /\ left.type = "identifier" /\ rightVal.ok
            THEN Bounded(cond.text, left.text, rightVal)
            ELSE DEFAULT_LOOP_ITERATIONS
        Of(cond) ==
            Compared(cond, ChildForFieldName(cond, "left"),
                     ChildForFieldName(cond, "right"),
                     CResolveConstantExpr(ChildForFieldName(cond, "right"), vc))
        Conditioned(condition) ==
            IF condition = Nil THEN DEFAULT_LOOP_ITERATIONS
            ELSE Of(Unwrapped(condition))
    IN Conditioned(ChildForFieldName(whileNode, "condition"))

----------------------------------------------------------------------------
(* cFamilyTreeSitterAnalyzer.ts: expressions *)

\* CFamilyTreeSitterAnalyzer.getCallName ("" stands for undefined)
CGetCallName(node) ==
    LET Name(funcNode) ==
            IF funcNode = Nil THEN ""
            ELSE IF funcNode.type \in {"identifier", "property_identifier"}
            THEN funcNode.text
            ELSE IF funcNode.type \in {"member_expression", "field_access"}
            THEN Or(ChildForFieldName(funcNode, "property"),
                    ChildForFieldName(funcNode, "field")).text
            ELSE ""
    IN Name(Or(ChildForFieldName(node, "function"), ChildForFieldName(node, "name")))

\* CFamilyTreeSitterAnalyzer.getFullCallName
RECURSIVE CMemberParts(_)
CMemberParts(current) ==
    LET Part(prop) == IF prop = Nil THEN <<>> ELSE <<prop.text>>
    IN IF current.type \in {"member_expression", "field_access"}
       THEN CMemberParts(ChildForFieldName(current, "object"))
            \o Part(Or(ChildForFieldName(current, "property"),
                       ChildForFieldName(current, "field")))
       ELSE IF current.type \in {"identifier", "property_identifier"}
       THEN <<current.text>>
       ELSE <<>>

CGetFullCallName(node) ==
    LET Joined(funcNode) ==
            IF funcNode = Nil THEN <<>> ELSE JoinDots(CMemberParts(funcNode))
    IN Joined(Or(ChildForFieldName(node, "function"), ChildForFieldName(node, "name")))

\* the first branch of the call classification that applies
CCallKind(l, callName, fullCallName) ==
    IF callName = "" THEN "function_call"
    ELSE IF callName \in IO_FUNCTIONS(l)
            \/ (fullCallName # <<>>
                /\ \E io \in IO_CALL_SUBSTRINGS(l) : Includes(fullCallName, io))
    THEN "io_operation"
    ELSE IF callName \in NETWORK_FUNCTIONS(l)
            \/ (fullCallName # <<>>
                /\ \E net \in NETWORK_CALL_SUBSTRINGS(l) : Includes(fullCallName, net))
    THEN "network_operation"
    ELSE IF callName \in ALLOC_FUNCTIONS(l) THEN "memory_allocation"
    ELSE "function_call"

\* CFamilyTreeSitterAnalyzer.analyzeExpression (the node kinds the trees use;
\* every other kind takes the default branch)
RECURSIVE CAnalyzeExpression(_, _, _)
RECURSIVE CAnalyzeExpressions(_, _, _, _)
CAnalyzeExpression(l, node, multiplier) ==
    LET ops == NewOperationCount
        Sub(n) == IF n = Nil THEN ops ELSE CAnalyzeExpression(l, n, multiplier)
        All(kids) == CAnalyzeExpressions(l, kids, 1, multiplier)
    IN
    IF node = Nil THEN ops
    ELSE CASE node.type = "binary_expression" ->
            Merge(Merge(
                CASE node.text = "+" -> Add(ops, "addition", multiplier)
                  [] node.text = "-" -> Add(ops, "subtraction", multiplier)
                  [] node.text = "*" -> Add(ops, "multiplication", multiplier)
                  [] node.text \in {"/", "%"} -> Add(ops, "division", multiplier)
                  [] node.text \in {"<", ">", "<=", ">=", "==", "!=", "===", "!==",
                                    "instanceof", "&&", "||", "and", "or"} ->
                        Add(ops, "comparison", multiplier)
                  [] OTHER -> Add(ops, "addition", multiplier),
                Sub(ChildForFieldName(node, "left"))),
                Sub(ChildForFieldName(node, "right")))
      [] node.type = "unary_expression" ->
            Merge(Add(ops, "addition", multiplier),
                  Sub(Or(ChildForFieldName(node, "argument"), Kid(node, 1))))
      [] node.type = "update_expression" ->
            Add(IF node.text = "--" THEN Add(ops, "subtraction", multiplier)
                ELSE Add(ops, "addition", multiplier),
                "assignment", multiplier)
      [] node.type = "assignment_expression" ->
            Merge(Add(ops, "assignment", multiplier),
                  Sub(ChildForFieldName(node, "right")))
      [] node.type = "augmented_assignment_expression" ->
            LET Compound(a) ==
                    CASE node.text = "+=" -> Add(a, "addition", multiplier)
                      [] node.text = "-=" -> Add(a, "subtraction", multiplier)
                      [] node.text = "*=" -> Add(a, "multiplication", multiplier)
                      [] node.text \in {"/=", "%="} -> Add(a, "division", multiplier)
                      [] OTHER -> a
            IN Merge(Compound(Add(ops, "assignment", multiplier)),
                     Sub(ChildForFieldName(node, "right")))
      [] node.type \in {"call_expression", "method_invocation"} ->
            LET Args(argsNode) == IF argsNode = Nil THEN ops ELSE All(argsNode.kids)
            IN Merge(Add(ops, CCallKind(l, CGetCallName(node), CGetFullCallName(node)),
                         multiplier),
                     Args(Or(ChildForFieldName(node, "arguments"),
                             FindKid(node, {"arguments", "argument_list"}))))
      [] node.type \in {"subscript_expression", "array_access"} ->
            Merge(Add(ops, "array_access", multiplier), All(node.kids))
      [] node.type \in {"member_expression", "field_access", "field_expression"} ->
            Sub(Or(ChildForFieldName(node, "object"), Kid(node, 1)))
      [] node.type \in {"parenthesized_expression", "spread_element"} ->
            Sub(Kid(node, 1))
      [] node.type = "sizeof_expression" -> Add(ops, "function_call", multiplier)
      [] node.type \in {"number", "number_literal", "decimal_integer_literal",
                        "integer_literal", "float_literal",
                        "decimal_floating_point_literal", "hex_integer_literal",
                        "octal_integer_literal", "binary_integer_literal",
                        "string", "string_literal", "character_literal", "true",
                        "false", "null", "null_literal", "undefined", "this",
                        "super", "identifier", "property_identifier",
                        "shorthand_property_identifier", "type_identifier",
                        "comment", "line_comment", "block_comment"} -> ops
      [] OTHER -> All(node.kids)

CAnalyzeExpressions(l, kids, i, multiplier) ==
    IF i > Len(kids) THEN NewOperationCount
    ELSE Merge(CAnalyzeExpression(l, kids[i], multiplier),
               CAnalyzeExpressions(l, kids, i + 1, multiplier))

----------------------------------------------------------------------------
(* cFamilyTreeSitterAnalyzer.ts: statements *)

\* the declarators of a declaration: each one an assignment and its value
RECURSIVE CAnalyzeDeclarators(_, _, _, _)
CAnalyzeDeclarators(l, kids, i, loopMultiplier) ==
    IF i > Len(kids) THEN NewOperationCount
    ELSE Merge(IF kids[i].type \in {"variable_declarator", "init_declarator"}
               THEN Add(CAnalyzeExpression(l, ChildForFieldName(kids[i], "value"),
                                           loopMultiplier),
                        "assignment", loopMultiplier)
               ELSE NewOperationCount,
               CAnalyzeDeclarators(l, kids, i + 1, loopMultiplier))

\* CFamilyTreeSitterAnalyzer.analyzeNode: the counter returned and the
\* assumptions pushed on the result, in order
RECURSIVE CAnalyzeNode(_, _, _, _)
RECURSIVE CAnalyzeNodes(_, _, _, _, _)
CAnalyzeNode(l, node, loopMultiplier, vc) ==
    LET \* `for (const stmt of b.namedChildren) analyzeNode(stmt, m)`
        Each(b, m) == IF b = Nil THEN NoOps ELSE CAnalyzeNodes(l, b.kids, 1, m, vc)
        \* a block is walked statement by statement, anything else as one node
        BlockOrNode(b) == IF b = Nil THEN NoOps
                          ELSE IF IsBlockNode(b) THEN Each(b, loopMultiplier)
                          ELSE CAnalyzeNode(l, b, loopMultiplier, vc)
        LoopOf(kind, iterations, extra) ==
            RMerge(RMerge([ops |-> Add(NewOperationCount, "comparison",
                                       loopMultiplier * iterations),
                           asm |-> <<Assumption(kind, iterations, "")>>],
                          extra),
                   Each(GetStatementBody(node), loopMultiplier * iterations))
        For(iterations) ==
            LoopOf("for", iterations,
                RMerge(CAnalyzeNode(l, Or(ChildForFieldName(node, "initializer"),
                                          ChildForFieldName(node, "init")),
                                    loopMultiplier, vc),
                       Counted(Merge(
                           CAnalyzeExpression(l, ChildForFieldName(node, "condition"),
                                              loopMultiplier),
                           CAnalyzeExpression(l, ChildForFieldName(node, "update"),
                                              loopMultiplier * iterations)))))
    IN
    IF node = Nil THEN NoOps
    ELSE CASE IsVariableDeclaration(node) ->
            Counted(CAnalyzeDeclarators(l, node.kids, 1, loopMultiplier))
      [] node.type \in {"expression_statement", "return_statement"} ->
            Counted(CAnalyzeExpressions(l, node.kids, 1, loopMultiplier))
      [] node.type = "for_statement" -> For(CEstimateForIterations(node, vc))
      [] node.type \in {"enhanced_for_statement", "for_in_statement"} ->
            LoopOf("for-each", DEFAULT_LOOP_ITERATIONS, NoOps)
      [] node.type = "while_statement" ->
            LoopOf("while", CEstimateWhileIterations(node, vc),
                   Counted(CAnalyzeExpression(l, ChildForFieldName(node, "condition"),
                                              loopMultiplier)))
      [] node.type = "do_statement" ->
            LoopOf("do-while", DEFAULT_LOOP_ITERATIONS, NoOps)
      [] node.type = "if_statement" ->
            LET Alternative(alternative) ==
                    IF alternative.type \in {"else_clause", "if_statement"}
                    THEN CAnalyzeNode(l, alternative, loopMultiplier, vc)
                    ELSE BlockOrNode(alternative)
            IN RMerge(RMerge(RMerge(RAdd(NoOps, "conditional_branch", loopMultiplier),
                                    Counted(CAnalyzeExpression(l,
                                                ChildForFieldName(node, "condition"),
                                                loopMultiplier))),
                             BlockOrNode(Or(ChildForFieldName(node, "consequence"),
                                            GetStatementBody(node)))),
                      Alternative(ChildForFieldName(node, "alternative")))
      [] node.type = "else_clause" ->
            LET ElseBody(body) == IF body # Nil THEN BlockOrNode(body)
                                  ELSE Each(node, loopMultiplier)
            IN ElseBody(GetStatementBody(node))
      [] node.type = "throw_statement" -> RAdd(NoOps, "function_call", loopMultiplier)
      [] node.type = "delete_expression" ->
            RAdd(NoOps, "memory_allocation", loopMultiplier)
      [] node.type \in {"break_statement", "continue_statement", "empty_statement",
                        "function_definition", "function_declaration",
                        "method_declaration", "class_declaration",
                        "class_definition"} -> NoOps
      [] OTHER -> Each(node, loopMultiplier)

CAnalyzeNodes(l, stmts, i, loopMultiplier, vc) ==
    IF i > Len(stmts) THEN NoOps
    ELSE RMerge(CAnalyzeNode(l, stmts[i], loopMultiplier, vc),
                CAnalyzeNodes(l, stmts, i + 1, loopMultiplier, vc))

\* CFamilyTreeSitterAnalyzer.containsCallTo
RECURSIVE ContainsCallTo(_, _)
ContainsCallTo(node, funcName) ==
    (node.type \in {"call_expression", "method_invocation"}
        /\ CGetCallName(node) # "" /\ CGetCallName(node) = funcName)
    \/ \E i \in 1..Len(node.kids) : ContainsCallTo(node.kids[i], funcName)

\* CFamilyTreeSitterAnalyzer.getMaxLoopDepth
RECURSIVE CGetMaxLoopDepth(_, _)
RECURSIVE CMaxLoopDepthKids(_, _, _, _)
CGetMaxLoopDepth(node, currentDepth) ==
    CMaxLoopDepthKids(node.kids, 1, currentDepth, currentDepth)

CMaxLoopDepthKids(kids, i, currentDepth, maxDepth) ==
    IF i > Len(kids) THEN maxDepth
    ELSE CMaxLoopDepthKids(kids, i + 1, currentDepth,
            Max(maxDepth,
                CGetMaxLoopDepth(kids[i],
                    IF kids[i].type \in {"for_statement", "while_statement",
                                         "do_statement", "enhanced_for_statement",
                                         "for_in_statement"}
                    THEN currentDepth + 1 ELSE currentDepth)))

\* CFamilyTreeSitterAnalyzer.getFunctionName
GetFunctionName(node) ==
    LET Declared(name) == IF name # "" THEN name ELSE "unknown"
        Name(nameNode) ==
            IF nameNode = Nil THEN "unknown"
            ELSE IF nameNode.type \in {"identifier", "property_identifier"}
            THEN nameNode.text
            ELSE IF nameNode.type = "function_declarator"
                    /\ ChildForFieldName(nameNode, "declarator") # Nil
            THEN ChildForFieldName(nameNode, "declarator").text
            ELSE Declared(GetDeclaratorName(nameNode))
    IN Name(Or(ChildForFieldName(node, "name"), ChildForFieldName(node, "declarator")))

\* CFamilyTreeSitterAnalyzer.getFunctionBody
GetFunctionBody(node) ==
    Or(ChildForFieldName(node, "body"),
       FindKid(node, {"compound_statement", "statement_block", "block"}))

\* CFamilyTreeSitterAnalyzer.analyzeFunction
CAnalyzeFunction(l, node, className, vc) ==
    LET Built(funcName, isRecursive, walked) ==
            [func |-> FunctionAnalysis(<<className, funcName>>,
                                       IF isRecursive
                                       THEN Scale(walked.ops, DEFAULT_RECURSION_DEPTH)
                                       ELSE walked.ops,
                                       isRecursive, CGetMaxLoopDepth(node, 0)),
             asm |-> walked.asm \o
                     (IF isRecursive
                      THEN <<Assumption("recursive", DEFAULT_RECURSION_DEPTH, funcName)>>
                      ELSE <<>>)]
    IN Built(GetFunctionName(node),
             ContainsCallTo(node, GetFunctionName(node)),
             CAnalyzeNodes(l, GetFunctionBody(node).kids, 1, 1,
                           CExtractConstants(node, vc)))

\* CFamilyTreeSitterAnalyzer.analyzeClass: the functions pushed and the
\* assumptions pushed with them
RECURSIVE CAnalyzeClassItems(_, _, _, _, _)
CAnalyzeClassItems(l, className, items, i, vc) ==
    LET Push(one, rest) ==
            [funcs |-> <<one.func>> \o rest.funcs, asm |-> one.asm \o rest.asm]
    IN IF i > Len(items) THEN [funcs |-> <<>>, asm |-> <<>>]
       ELSE IF items[i].type \in {"function_definition", "function_declaration",
                                  "method_declaration", "method_definition",
                                  "arrow_function", "generator_function_declaration"}
       THEN Push(CAnalyzeFunction(l, items[i], className, vc),
                 CAnalyzeClassItems(l, className, items, i + 1, vc))
       ELSE CAnalyzeClassItems(l, className, items, i + 1, vc)

CAnalyzeClass(l, classNode, vc) ==
    LET Name(nameNode) == IF nameNode # Nil /\ nameNode.text # "" THEN nameNode.text
                          ELSE "UnknownClass"
    IN CAnalyzeClassItems(l, Name(ChildForFieldName(classNode, "name")),
            Or(ChildForFieldName(classNode, "body"),
               FindKid(classNode, {"class_body", "declaration_list",
                                   "field_declaration_list"})).kids, 1, vc)

----------------------------------------------------------------------------
(* Parse trees: what tree-sitter-python and tree-sitter-c hand to the      *)
(* walkers for the source forms the inputs are drawn from                  *)

Leaf(type, text, num) == Node(type, text, num, <<>>, <<>>)

\* Python: a (possibly negative) integer literal
PyInt(c) ==
    IF c >= 0 THEN Leaf("integer", "", c)
    ELSE Node("unary_operator", "-", 0, <<"argument">>, <<Leaf("integer", "", -c)>>)

\* Python: name(args)
PyCall(name, args) ==
    Node("call", "", 0, <<"function", "arguments">>,
         <<Leaf("identifier", name, 0), Plain("argument_list", args)>>)

\* Python: name = value
PyAssign(name, value) ==
    Plain("expression_statement",
          <<Node("assignment", "", 0, <<"left", "right">>,
                 <<Leaf("identifier", name, 0), value>>)>>)

\* Python: left op right as a comparison
PyCompare(op, left, right) ==
    Node("comparison_operator", op, 1, <<"", "">>, <<left, right>>)

\* Python: for target in iterable: body
PyFor(target, iterable, body) ==
    Node("for_statement", "", 0, <<"left", "right", "body">>,
         <<Leaf("identifier", target, 0), iterable, Plain("block", body)>>)

\* Python: while condition: body
PyWhile(condition, body) ==
    Node("while_statement", "", 0, <<"condition", "body">>,
         <<condition, Plain("block", body)>>)

\* Python: def name(): body
PyDef(name, body) ==
    Node("function_definition", "", 0, <<"name", "parameters", "body">>,
         <<Leaf("identifier", name, 0), Plain("parameters", <<>>),
           Plain("block", body)>>)

\* C: a (possibly negative) integer literal
CInt(c) ==
    IF c >= 0 THEN Leaf("number_literal", "", c)
    ELSE Node("unary_expression", "-", 0, <<"argument">>,
              <<Leaf("number_literal", "", -c)>>)

\* C: name(args);  without the statement wrapper
CCall(name, args) ==
    Node("call_expression", "", 0, <<"function", "arguments">>,
         <<Leaf("identifier", name, 0), Plain("argument_list", args)>>)

\* C: int name = value;
CDecl(name, value) ==
    Node("declaration", "", 0, <<"type", "declarator">>,
         <<Leaf("primitive_type", "int", 0),
           Node("init_declarator", "", 0, <<"declarator", "value">>,
                <<Leaf("identifier", name, 0), value>>)>>)

\* C: left op right
CBinary(op, left, right) ==
    Node("binary_expression", op, 0, <<"left", "right">>, <<left, right>>)

\* C: for (int var = 0; var < bound; var++) body
CFor(var, bound, body) ==
    Node("for_statement", "", 0, <<"initializer", "condition", "update", "body">>,
         <<CDecl(var, CInt(0)),
           CBinary("<", Leaf("identifier", var, 0), bound),
           Node("update_expression", "++", 0, <<"argument">>,
                <<Leaf("identifier", var, 0)>>),
           body>>)

\* C: while (condition) body
CWhile(condition, body) ==
    Node("while_statement", "", 0, <<"condition", "body">>,
         <<Plain("parenthesized_expression", <<condition>>), body>>)

\* C: int name() { body }
CDef(name, body) ==
    Node("function_definition", "", 0, <<"type", "declarator", "body">>,
         <<Leaf("primitive_type", "int", 0),
           Node("function_declarator", "", 0, <<"declarator", "parameters">>,
                <<Leaf("identifier", name, 0), Plain("parameter_list", <<>>)>>),
           Plain("compound_statement", body)>>)

----------------------------------------------------------------------------
(* Input programs of the walker specification *)

\* deepest loop nest drawn
MaxDepth == 2

\* the literal loop bound of the resolved headers
LoopBound == 3

\* values the global `N` is bound to
ConstValues == {2, -2}

Dialects == {"python", "c"}

LeafKinds == {"io", "call", "self", "assign"}

Headers(d) ==
    IF d = "python" THEN {"rangeK", "range0", "rangeN", "inN", "whileN"}
    ELSE {"forK", "forKbare", "forN", "whileN", "whileNbare"}

\* the statement of each leaf kind
LeafStmt(d, k) ==
    IF d = "python"
    THEN CASE k = "io" ->
                Plain("expression_statement",
                      <<PyCall("print", <<Leaf("string", "", 3)>>)>>)
           [] k = "call" -> Plain("expression_statement", <<PyCall("g", <<>>)>>)
           [] k = "self" -> Plain("expression_statement", <<PyCall("f", <<>>)>>)
           [] k = "assign" ->
                PyAssign("x", Node("binary_operator", "+", 0, <<"left", "right">>,
                                   <<Leaf("identifier", "i", 0), PyInt(1)>>))
    ELSE CASE k = "io" ->
                Plain("expression_statement",
                      <<CCall("printf", <<Leaf("string_literal", "", 3)>>)>>)
           [] k = "call" -> Plain("expression_statement", <<CCall("g", <<>>)>>)
           [] k = "self" -> Plain("expression_statement", <<CCall("f", <<>>)>>)
           [] k = "assign" ->
                Plain("expression_statement",
                      <<Node("assignment_expression", "=", 0, <<"left", "right">>,
                             <<Leaf("identifier", "x", 0),
                               CBinary("+", Leaf("identifier", "i", 0), CInt(1))>>)>>)

\* one loop around a statement
Loop(d, h, stmt) ==
    IF d = "python"
    THEN CASE h = "rangeK" -> PyFor("i", PyCall("range", <<PyInt(LoopBound)>>), <<stmt>>)
           [] h = "range0" -> PyFor("i", PyCall("range", <<PyInt(0)>>), <<stmt>>)
           [] h = "rangeN" ->
                PyFor("i", PyCall("range", <<Leaf("identifier", "N", 0)>>), <<stmt>>)
           [] h = "inN" -> PyFor("x", Leaf("identifier", "N", 0), <<stmt>>)
           [] h = "whileN" ->
                PyWhile(PyCompare("<", Leaf("identifier", "j", 0),
                                  Leaf("identifier", "N", 0)), <<stmt>>)
    ELSE CASE h = "forK" ->
                CFor("i", CInt(LoopBound), Plain("compound_statement", <<stmt>>))
           [] h = "forKbare" -> CFor("i", CInt(LoopBound), stmt)
           [] h = "forN" ->
                CFor("i", Leaf("identifier", "N", 0),
                     Plain("compound_statement", <<stmt>>))
           [] h = "whileN" ->
                CWhile(CBinary("<", Leaf("identifier", "j", 0),
                               Leaf("identifier", "N", 0)),
                       Plain("compound_statement", <<stmt>>))
           [] h = "whileNbare" ->
                CWhile(CBinary("<", Leaf("identifier", "j", 0),
                               Leaf("identifier", "N", 0)), stmt)

\* the loops of `heads`, outermost first, around the leaf
RECURSIVE Nest(_, _, _)
Nest(d, heads, leaf) ==
    IF Len(heads) = 0 THEN LeafStmt(d, leaf)
    ELSE Loop(d, Head(heads), Nest(d, Tail(heads), leaf))

\* python: [N = c]  def f(): <nest>  <nest>      c: [int N = c;]  int f() { <nest> }
Program(d, const, heads, leaf) ==
    LET stmt == Nest(d, heads, leaf)
        decl == IF Len(const) = 0 THEN <<>>
                ELSE IF d = "python" THEN <<PyAssign("N", PyInt(const[1]))>>
                ELSE <<CDecl("N", CInt(const[1]))>>
    IN IF d = "python"
       THEN Plain("module", decl \o <<PyDef("f", <<stmt>>), stmt>>)
       ELSE Plain("translation_unit", decl \o <<CDef("f", <<stmt>>)>>)

HeadSeqs(d) == UNION {[1..k -> Headers(d)] : k \in 0..MaxDepth}

ProgramsOf(d) ==
    {[lang |-> d, root |-> Program(d, const, heads, leaf)] :
        const \in {<<>>} \cup {<<c>> : c \in ConstValues},
        heads \in HeadSeqs(d),
        leaf \in LeafKinds}

\* a function that binds N itself, ahead of a different global binding of N:
\* python: def f(): N = 3; <loop over N>   N = c   <loop over N>
\* c: int f() { int N = 3; <loop over N> }   int N = c;
Shadowed(d, c) ==
    IF d = "python"
    THEN Plain("module",
               <<PyDef("f", <<PyAssign("N", PyInt(LoopBound)),
                              Loop(d, "rangeN", LeafStmt(d, "io"))>>),
                 PyAssign("N", PyInt(c)),
                 Loop(d, "rangeN", LeafStmt(d, "io"))>>)
    ELSE Plain("translation_unit",
               <<CDef("f", <<CDecl("N", CInt(LoopBound)),
                             Loop(d, "forN", LeafStmt(d, "io"))>>),
                 CDecl("N", CInt(c))>>)

ShadowedPrograms ==
    {[lang |-> d, root |-> Shadowed(d, c)] : d \in Dialects, c \in ConstValues}

Programs == UNION {ProgramsOf(d) : d \in Dialects} \cup ShadowedPrograms

----------------------------------------------------------------------------
(* The walkers' analyze(): one step per top-level child *)

\* the assumptions analyze() pushes before the walk
HeaderAssumptions(l) ==
    IF l = "python"
    THEN <<Assumption("energy", 0, ""), Assumption("carbon", 0, "")>>
    ELSE <<Assumption("ast", 0, l), Assumption("energy", 0, ""),
           Assumption("carbon", 0, "")>>

\* what one iteration of the top-level loop of analyze() adds to the result
NoStep == [funcs |-> <<>>, asm |-> <<>>, ops |-> NewOperationCount]

FunctionStep(r) == [funcs |-> <<r.func>>, asm |-> r.asm, ops |-> NewOperationCount]

ClassStep(r) == [funcs |-> r.funcs, asm |-> r.asm, ops |-> NewOperationCount]

GlobalStep(r) == [funcs |-> <<>>, asm |-> r.asm, ops |-> r.ops]

\* PythonTreeSitterAnalyzer.analyze: a decorated definition is analyzed as the
\* definition it wraps and skipped when it wraps none
PyDefinitionStep(child, def, vc) ==
    CASE def.type = "function_definition" -> FunctionStep(PyAnalyzeFunction(def, "", vc))
      [] def.type = "class_definition" -> ClassStep(PyAnalyzeClass(def, vc))
      [] child.type = "decorated_definition" -> NoStep
      [] OTHER -> GlobalStep(PyAnalyzeNode(child, 1, vc))

PyAnalyzeTopLevel(child, vc) ==
    PyDefinitionStep(child,
                     IF child.type = "decorated_definition"
                     THEN FindKid(child, {"function_definition", "class_definition"})
                     ELSE child,
                     vc)

\* CFamilyTreeSitterAnalyzer.analyze
CAnalyzeTopLevel(l, child, vc) ==
    CASE child.type \in {"function_definition", "function_declaration",
                         "method_declaration", "method_definition",
                         "arrow_function", "generator_function_declaration"} ->
            FunctionStep(CAnalyzeFunction(l, child, "", vc))
      [] child.type \in {"class_declaration", "class_definition",
                         "struct_specifier"} ->
            ClassStep(CAnalyzeClass(l, child, vc))
      [] OTHER -> GlobalStep(CAnalyzeNode(l, child, 1, vc))

AnalyzeTopLevel(l, child, vc) ==
    IF l = "python" THEN PyAnalyzeTopLevel(child, vc)
    ELSE CAnalyzeTopLevel(l, child, vc)

\* a table in place of the one an earlier analyze() left behind
KeepTable(vc) == vc

\* `this.variableConstants = new Map()` on entry to analyze()
ResetTable(vc) == {}

ExtractConstants(l, node, vc) ==
    IF l = "python" THEN PyExtractConstants(node, vc) ELSE CExtractConstants(node, vc)

\* the table analyzeFunction leaves in place of the one extractConstants extended
LeaveTable(savedVars, extended) == extended

\* `this.variableConstants = savedVars` at the end of analyzeFunction
RestoreTable(savedVars, extended) == savedVars

\* analyzeFunction: the constant table after `savedVars = new Map(...)`,
\* extractConstants(node), the walk of the body and the restore
TableAfterFunction(l, node, vc) == RestoreTable(vc, ExtractConstants(l, node, vc))

\* the function definition analyze() and analyzeClass() hand to analyzeFunction
\* for a child, Nil when they hand none
FunctionDefOf(l, child) ==
    IF l = "python"
    THEN (IF child.type = "function_definition" THEN child
          ELSE IF child.type = "decorated_definition"
                  /\ FindKid(child, {"function_definition", "class_definition"}).type
                        = "function_definition"
          THEN FindKid(child, {"function_definition", "class_definition"})
          ELSE Nil)
    ELSE (IF child.type \in {"function_definition", "function_declaration",
                             "method_declaration", "method_definition",
                             "arrow_function", "generator_function_declaration"}
          THEN child ELSE Nil)

\* the class definition analyze() hands to analyzeClass for a child
ClassDefOf(l, child) ==
    IF l = "python"
    THEN (IF child.type = "class_definition" THEN child
          ELSE IF child.type = "decorated_definition"
                  /\ FindKid(child, {"function_definition", "class_definition"}).type
                        = "class_definition"
          THEN FindKid(child, {"function_definition", "class_definition"})
          ELSE Nil)
    ELSE (IF child.type \in {"class_declaration", "class_definition",
                             "struct_specifier"}
          THEN child ELSE Nil)

\* the members analyzeClass goes through
ClassItems(l, classNode) ==
    IF l = "python" THEN ChildForFieldName(classNode, "body").kids
    ELSE Or(ChildForFieldName(classNode, "body"),
            FindKid(classNode, {"class_body", "declaration_list",
                                "field_declaration_list"})).kids

\* analyzeClass: the constant table after the analyzeFunction of each method
RECURSIVE TableAfterMethods(_, _, _, _)
TableAfterMethods(l, items, i, vc) ==
    IF i > Len(items) THEN vc
    ELSE TableAfterMethods(l, items, i + 1,
                           IF FunctionDefOf(l, items[i]) = Nil THEN vc
                           ELSE TableAfterFunction(l, FunctionDefOf(l, items[i]), vc))

\* the constant table after one iteration of the top-level loop of analyze()
TableAfter(l, child, vc) ==
    IF FunctionDefOf(l, child) # Nil
    THEN TableAfterFunction(l, FunctionDefOf(l, child), vc)
    ELSE IF ClassDefOf(l, child) # Nil
    THEN TableAfterMethods(l, ClassItems(l, ClassDefOf(l, child)), 1, vc)
    ELSE vc

\* the body analyzeFunction walks
BodyOf(l, node) ==
    IF l = "python" THEN ChildForFieldName(node, "body") ELSE GetFunctionBody(node)

\* the assumptions pushed by the walk of the first `n` statements of a body
PushedBefore(l, stmts, n, vc) ==
    IF l = "python" THEN PyAnalyzeNodes(SubSeq(stmts, 1, n), 1, 1, vc).asm
    ELSE CAnalyzeNodes(l, SubSeq(stmts, 1, n), 1, 1, vc).asm

\* analyze(rootNode): a fresh result, the constant table, the first assumptions
AnalyzeStart ==
    /\ pc = "start"
    /\ functions' = <<>>
    /\ globalOperations' = NewOperationCount
    /\ variableConstants' = ExtractConstants(lang, root, ResetTable(variableConstants))
    /\ assumptions' = HeaderAssumptions(lang)
    /\ idx' = 1
    /\ pc' = "walk"
    /\ UNCHANGED <<request, registry>>
    /\ UNCHANGED <<lang, root, observed>>

\* one iteration of `for (const child of rootNode.namedChildren)`
AnalyzeChild ==
    /\ pc = "walk"
    /\ idx <= Len(root.kids)
    /\ LET Push(step) ==
               /\ functions' = functions \o step.funcs
               /\ globalOperations' = Merge(globalOperations, step.ops)
               /\ assumptions' = assumptions \o step.asm
       IN Push(AnalyzeTopLevel(lang, root.kids[idx], variableConstants))
    /\ variableConstants' = TableAfter(lang, root.kids[idx], variableConstants)
    /\ idx' = idx + 1
    /\ UNCHANGED <<request, registry>>
    /\ UNCHANGED <<lang, root, pc, observed>>

\* an iteration of the top-level loop in which analyzeFunction is left by an
\* exception raised under analyzeNode for the k-th statement of the body (the
\* walk recurses once per level of the tree and the parse tree is read
\* through the WASM binding); analyze() has no handler and is left as well
AnalyzeFunctionThrows ==
    /\ pc = "walk"
    /\ idx <= Len(root.kids)
    /\ FunctionDefOf(lang, root.kids[idx]) # Nil
    /\ \E k \in 1..Len(BodyOf(lang, FunctionDefOf(lang, root.kids[idx])).kids) :
          assumptions' = assumptions \o
              PushedBefore(lang, BodyOf(lang, FunctionDefOf(lang, root.kids[idx])).kids,
                           k - 1,
                           ExtractConstants(lang, FunctionDefOf(lang, root.kids[idx]),
                                            variableConstants))
    /\ variableConstants' = ExtractConstants(lang, FunctionDefOf(lang, root.kids[idx]),
                                             variableConstants)
    /\ pc' = "thrown"
    /\ UNCHANGED <<request, registry>>
    /\ UNCHANGED <<lang, root, idx, functions, globalOperations, observed>>

\* `return this.result`
AnalyzeReturn ==
    /\ pc = "walk"
    /\ idx > Len(root.kids)
    /\ pc' = "done"
    /\ UNCHANGED <<request, registry>>
    /\ UNCHANGED <<lang, root, idx, functions, globalOperations, assumptions,
                   variableConstants, observed>>

InitWalk ==
    /\ \E p \in Programs : lang = p.lang /\ root = p.root
    /\ pc = "start"
    /\ idx = 0
    /\ functions = <<>>
    /\ globalOperations = NewOperationCount
    /\ assumptions = <<>>
    /\ variableConstants = {}
    /\ observed = <<>>
    /\ request = NoRequest
    /\ RegistryAtLoad

NextWalk == AnalyzeStart \/ AnalyzeChild \/ AnalyzeFunctionThrows \/ AnalyzeReturn

SpecWalk == InitWalk /\ [][NextWalk]_vars

----------------------------------------------------------------------------
(* Properties of the walkers *)

\* the function definition of the program under analysis and its body
FunctionNode ==
    FindKid(root, {"function_definition"})

FunctionBody ==
    IF lang = "python" THEN ChildForFieldName(FunctionNode, "body")
    ELSE GetFunctionBody(FunctionNode)

\* the constant table in force inside the function
ScopedConstants == ExtractConstants(lang, FunctionNode, variableConstants)

IsLoop(node) == node.type \in {"for_statement", "while_statement"}

\* the iteration count a loop header resolves to
Iterations(node, vc) ==
    IF lang = "python"
    THEN (IF node.type = "for_statement"
          THEN PyEstimateForIterations(ChildForFieldName(node, "right"), vc)
          ELSE PyEstimateWhileIterations(ChildForFieldName(node, "condition"),
                                         node, vc))
    ELSE (IF node.type = "for_statement" THEN CEstimateForIterations(node, vc)
          ELSE CEstimateWhileIterations(node, vc))

\* the statements a loop repeats: those of its block, or its single statement
Repeated(node) ==
    LET body == ChildForFieldName(node, "body")
    IN IF body.type \in {"block", "compound_statement"} THEN body.kids
       ELSE <<body>>

\* the operations of one kind a statement contains, counted once
Contains(stmt, kind, vc) ==
    IF lang = "python" THEN PyAnalyzeNode(stmt, 1, vc).ops[kind]
    ELSE CAnalyzeNode(lang, stmt, 1, vc).ops[kind]

\* what the loop cascade prescribes for the statements `stmts` at multiplier m:
\* a statement inside loops of n_1..n_k iterations counts n_1 x ... x n_k times
RECURSIVE Cascade(_, _, _, _, _)
Cascade(stmts, i, m, kind, vc) ==
    IF i > Len(stmts) THEN 0
    ELSE (IF IsLoop(stmts[i])
          THEN Cascade(Repeated(stmts[i]), 1, m * Iterations(stmts[i], vc), kind, vc)
          ELSE m * Contains(stmts[i], kind, vc))
         + Cascade(stmts, i + 1, m, kind, vc)

\* the kinds no loop header adds to
BodyOnlyKinds == {"io_operation", "function_call", "network_operation",
                  "memory_allocation", "array_access"}

\* C1: in both AST walkers a statement of a function body inside k loops of
\* n_1..n_k iterations adds n_1 x ... x n_k per operation it contains to the
\* count of its kind, for every nesting of for/while loops.
LoopCascade ==
    (pc = "done" /\ ~functions[1].isRecursive)
        => \A kind \in BodyOnlyKinds :
              functions[1].operations[kind]
                  = Cascade(FunctionBody.kids, 1, 1, kind, ScopedConstants)

\* what the loop condition cost prescribes for the statements `stmts` at
\* multiplier m: a loop of n iterations adds m x n comparisons and its body
\* statements are walked at m x n; any other statement is walked at m
RECURSIVE HeaderCost(_, _, _, _)
HeaderCost(stmts, i, m, vc) ==
    LET Statement(stmt) ==
            IF lang = "python" THEN PyAnalyzeNode(stmt, m, vc).ops
            ELSE CAnalyzeNode(lang, stmt, m, vc).ops
        Header(n) ==
            Add(HeaderCost(Repeated(stmts[i]), 1, m * n, vc), "comparison", m * n)
    IN IF i > Len(stmts) THEN NewOperationCount
       ELSE Merge(IF IsLoop(stmts[i]) THEN Header(Iterations(stmts[i], vc))
                  ELSE Statement(stmts[i]),
                  HeaderCost(stmts, i + 1, m, vc))

\* C19: for every loop kind in both AST walkers, a loop of N iterations reached
\* at multiplier m adds exactly m x N to the comparison count apart from what
\* its body statements add, and every statement of its body is walked at
\* multiplier m x N.
LoopConditionCost ==
    (pc = "done" /\ ~functions[1].isRecursive)
        => functions[1].operations = HeaderCost(FunctionBody.kids, 1, 1, ScopedConstants)

\* the multiplier-1 walk of the function body
BodyWalk ==
    IF lang = "python"
    THEN PyAnalyzeNodes(FunctionBody.kids, 1, 1, ScopedConstants).ops
    ELSE CAnalyzeNodes(lang, FunctionBody.kids, 1, 1, ScopedConstants).ops

\* C2: a function marked recursive ends with every one of the twelve entries of
\* its multiplier-1 body walk multiplied by exactly 10; a function not marked
\* recursive ends with the body walk unchanged.
RecursionScaling ==
    pc = "done"
        => \A kind \in OpTypes :
              functions[1].operations[kind]
                  = IF functions[1].isRecursive THEN 10 * BodyWalk[kind]
                    ELSE BodyWalk[kind]

\* a recursive function whose call sits in a loop of LoopBound iterations
RecursionScalingWitness ==
    /\ pc = "done"
    /\ functions[1].isRecursive
    /\ functions[1].operations["function_call"] = 10 * LoopBound
    /\ functions[1].operations["comparison"] = 10 * LoopBound

\* the iteration estimates the walk recorded
LoopEstimates ==
    {assumptions[i].n : i \in {j \in 1..Len(assumptions) :
        assumptions[j].kind \in {"for-resolved", "for-unknown", "while", "for",
                                 "for-each", "do-while"}}}

\* C4: every loop iteration estimate and every operation count of every
\* function counter and of the global counter is >= 0, also when an identifier
\* bound to a negative integer is a loop bound or the iterated identifier.
NonNegativity ==
    /\ \A n \in LoopEstimates : n >= 0
    /\ \A kind \in OpTypes :
          /\ globalOperations[kind] >= 0
          /\ \A i \in 1..Len(functions) : functions[i].operations[kind] >= 0

----------------------------------------------------------------------------
(* models.ts: AnalysisResult *)

\* FunctionAnalysis.weightedOps
WeightedOps(f) == TotalWeighted(f.operations)

RECURSIVE MergeAll(_, _, _)
MergeAll(total, fs, i) ==
    IF i > Len(fs) THEN total
    ELSE MergeAll(Merge(total, fs[i].operations), fs, i + 1)

\* the getter with `total` bound to this.globalOperations instead of a new counter
TotalOperationsAliased(g, fs) ==
    [total |-> MergeAll(Merge(g, g), fs, 1),
     globalOperations |-> MergeAll(Merge(g, g), fs, 1),
     functions |-> fs]

\* AnalysisResult.totalOperations: the counter returned, and the receiver's
\* fields after the call (merge writes its receiver, here the new counter)
TotalOperations(g, fs) ==
    [total |-> MergeAll(Merge(NewOperationCount, g), fs, 1),
     globalOperations |-> g,
     functions |-> fs]

\* Array.prototype.sort((a, b) => b.weightedOps - a.weightedOps): stable, so an
\* element goes behind every element that does not weigh less
InsertByWeight(sorted, f) ==
    LET Lighter(i) == WeightedOps(sorted[i]) < WeightedOps(f)
        k == FirstIndex(Len(sorted), Lighter)
    IN IF k = 0 THEN Append(sorted, f)
       ELSE SubSeq(sorted, 1, k - 1) \o <<f>> \o SubSeq(sorted, k, Len(sorted))

RECURSIVE SortByWeight(_, _, _)
SortByWeight(fs, i, sorted) ==
    IF i > Len(fs) THEN sorted
    ELSE SortByWeight(fs, i + 1, InsertByWeight(sorted, fs[i]))

\* the getter sorting this.functions itself instead of a copy
HotspotsInPlace(fs) ==
    LET sorted == SortByWeight(fs, 1, <<>>)
    IN [hotspots |-> SubSeq(sorted, 1, IF Len(sorted) < 5 THEN Len(sorted) ELSE 5),
        functions |-> sorted]

\* AnalysisResult.hotspots: [...this.functions].sort(...).slice(0, 5), and the
\* functions list after the call
Hotspots(fs) ==
    LET sorted == SortByWeight(fs, 1, <<>>)
    IN [hotspots |-> SubSeq(sorted, 1, IF Len(sorted) < 5 THEN Len(sorted) ELSE 5),
        functions |-> fs]

----------------------------------------------------------------------------
(* A result under construction: the updates a walker makes, and the reads *)

\* functions pushed at most
MaxFunctions == 6

\* raw operations merged into the global counter at most
MaxGlobal == 2

\* the counters the updates draw from, of weights 1 and 2
Counters == {Add(NewOperationCount, "addition", 1),
             Add(NewOperationCount, "multiplication", 1)}

FunctionNames == <<"f1", "f2", "f3", "f4", "f5", "f6", "f7", "f8">>

NoRead == [getter |-> "none", value |-> <<>>]

RECURSIVE RawSum(_, _)
RawSum(c, ops) ==
    IF ops = {} THEN 0
    ELSE LET op == CHOOSE o \in ops : TRUE IN c[op] + RawSum(c, ops \ {op})

\* this.result.functions.push(func)
PushFunction ==
    /\ pc = "result"
    /\ Len(functions) < MaxFunctions
    /\ \E c \in Counters :
          functions' = Append(functions,
                              FunctionAnalysis(<<"", FunctionNames[Len(functions) + 1]>>,
                                               c, FALSE, 0))
    /\ observed' = NoRead
    /\ UNCHANGED <<request, registry>>
    /\ UNCHANGED <<lang, root, pc, idx, globalOperations, assumptions,
                   variableConstants>>

\* this.result.globalOperations.merge(ops)
MergeGlobal ==
    /\ pc = "result"
    /\ RawSum(globalOperations, OpTypes) < MaxGlobal
    /\ \E c \in Counters : globalOperations' = Merge(globalOperations, c)
    /\ observed' = NoRead
    /\ UNCHANGED <<request, registry>>
    /\ UNCHANGED <<lang, root, pc, idx, functions, assumptions, variableConstants>>

\* result.totalOperations
ReadTotalOperations ==
    /\ pc = "result"
    /\ LET r == TotalOperations(globalOperations, functions)
       IN /\ observed' = [getter |-> "totalOperations", value |-> r.total]
          /\ globalOperations' = r.globalOperations
          /\ functions' = r.functions
    /\ UNCHANGED <<request, registry>>
    /\ UNCHANGED <<lang, root, pc, idx, assumptions, variableConstants>>

\* result.hotspots
ReadHotspots ==
    /\ pc = "result"
    /\ LET r == Hotspots(functions)
       IN /\ observed' = [getter |-> "hotspots", value |-> r.hotspots]
          /\ functions' = r.functions
    /\ UNCHANGED <<request, registry>>
    /\ UNCHANGED <<lang, root, pc, idx, globalOperations, assumptions,
                   variableConstants>>

InitResult ==
    /\ lang = "python"
    /\ root = Nil
    /\ pc = "result"
    /\ idx = 0
    /\ functions = <<>>
    /\ globalOperations = NewOperationCount
    /\ assumptions = <<>>
    /\ variableConstants = {}
    /\ observed = NoRead
    /\ request = NoRequest
    /\ RegistryAtLoad

NextResult == PushFunction \/ MergeGlobal \/ ReadTotalOperations \/ ReadHotspots

SpecResult == InitResult /\ [][NextResult]_vars

----------------------------------------------------------------------------
(* Properties of AnalysisResult *)

RECURSIVE SumOfKind(_, _)
SumOfKind(fs, kind) ==
    IF Len(fs) = 0 THEN 0
    ELSE Head(fs).operations[kind] + SumOfKind(Tail(fs), kind)

\* C3: totalOperations[k] = globalOperations[k] + the sum over all functions f
\* of f.operations[k] for each of the twelve kinds, and reading totalOperations
\* changes neither globalOperations nor any function's counter.
TotalIsSumOfParts ==
    /\ [](observed.getter = "totalOperations"
            => \A kind \in OpTypes :
                  observed.value[kind]
                      = globalOperations[kind] + SumOfKind(functions, kind))
    /\ [][ReadTotalOperations
            => (globalOperations' = globalOperations /\ functions' = functions)]_vars

\* a total read over a non-empty global counter and several functions
TotalIsSumOfPartsWitness ==
    /\ observed.getter = "totalOperations"
    /\ Len(functions) >= 2
    /\ globalOperations["addition"] >= 1
    /\ SumOfKind(functions, "multiplication") >= 1
    /\ observed.value["addition"] > globalOperations["addition"]

\* function a comes before function b in the ranking: heavier first, and of
\* two equally heavy ones the one defined first
Precedes(fs, a, b) ==
    \/ WeightedOps(fs[a]) > WeightedOps(fs[b])
    \/ (WeightedOps(fs[a]) = WeightedOps(fs[b]) /\ a < b)

\* the index of the function ranked i-th
Ranked(fs, i) ==
    CHOOSE a \in 1..Len(fs) :
        Cardinality({b \in 1..Len(fs) : Precedes(fs, b, a)}) = i - 1

\* C5: hotspots is the min(5, |functions|) functions of largest weighted_ops in
\* descending order, equally heavy ones in definition order, and computing it
\* does not reorder the functions list.
HotspotOrdering ==
    /\ [](observed.getter = "hotspots"
            => /\ Len(observed.value)
                    = (IF Len(functions) < 5 THEN Len(functions) ELSE 5)
               /\ \A i \in 1..Len(observed.value) :
                     observed.value[i] = functions[Ranked(functions, i)])
    /\ [][ReadHotspots => functions' = functions]_vars

\* hotspots read over more than five functions, out of definition order, with
\* a tie inside the top five and a tie across the cut
HotspotOrderingWitness ==
    /\ observed.getter = "hotspots"
    /\ Len(functions) > 5
    /\ Len(observed.value) = 5
    /\ observed.value[1] # functions[1]
    /\ WeightedOps(observed.value[1]) = WeightedOps(observed.value[2])
    /\ WeightedOps(observed.value[2]) > WeightedOps(observed.value[5])
    /\ \E i \in 1..Len(functions) :
          /\ \A j \in 1..5 : observed.value[j] # functions[i]
          /\ WeightedOps(functions[i]) = WeightedOps(observed.value[5])

----------------------------------------------------------------------------
(* languageDetection.ts: detectLanguage.  A path is the sequence of its     *)
(* characters; a source text is known by the heuristics' regular expressions *)
(* it matches (`marks`) and by whether it is the empty string.               *)

UpperCase == <<"A", "C", "H", "J", "P", "S", "T", "V", "X", "Y">>

LowerCase == <<"a", "c", "h", "j", "p", "s", "t", "v", "x", "y">>

ToLowerCase(str) ==
    [i \in 1..Len(str) |->
        IF \E k \in 1..Len(UpperCase) : UpperCase[k] = str[i]
        THEN LowerCase[CHOOSE k \in 1..Len(UpperCase) : UpperCase[k] = str[i]]
        ELSE str[i]]

\* path.extname: from the last "." of the last path component to its end;
\* empty when there is no ".", when the component starts with its only ".",
\* or when the component is ".."
Extname(path) ==
    LET Last(S) == CHOOSE i \in S : \A j \in S : j <= i
        Slashes == {i \in 1..Len(path) : path[i] = "/"}
        NonSlashes == {i \in 1..Len(path) : path[i] # "/"}
        end == IF NonSlashes = {} THEN 0 ELSE Last(NonSlashes)
        startPart == IF {i \in Slashes : i < end} = {} THEN 1
                     ELSE Last({i \in Slashes : i < end}) + 1
        Dots == {i \in startPart..end : path[i] = "."}
        startDot == IF Dots = {} THEN 0 ELSE Last(Dots)
        onlyDotsBefore == \A i \in startPart..(startDot - 1) : path[i] = "."
    IN IF end = 0 \/ startDot = 0 THEN <<>>
       ELSE IF startDot = startPart THEN <<>>
       ELSE IF onlyDotsBefore /\ startDot = end /\ startDot = startPart + 1 THEN <<>>
       ELSE SubSeq(path, startDot, end)

EXT_MAP ==
    { <<<<".", "p", "y">>, "python">>,
      <<<<".", "j", "a", "v", "a">>, "java">>,
      <<<<".", "c">>, "c">>,
      <<<<".", "c", "p", "p">>, "cpp">>,
      <<<<".", "c", "c">>, "cpp">>,
      <<<<".", "c", "x", "x">>, "cpp">>,
      <<<<".", "h", "p", "p">>, "cpp">>,
      <<<<".", "h">>, "c">>,
      <<<<".", "j", "s">>, "javascript">>,
      <<<<".", "m", "j", "s">>, "javascript">>,
      <<<<".", "j", "s", "x">>, "javascript">>,
      <<<<".", "t", "s">>, "typescript">>,
      <<<<".", "t", "s", "x">>, "typescript">> }

\* the regular expressions of the content heuristics
Marks == {"def", "colonEol", "publicClass", "include", "printf", "coutStd",
          "typeDecl", "colonWord", "js"}

\* the `if (code) { ... }` block: the first heuristic that matches, "" if none
HeuristicLanguage(code) ==
    IF code.text # ""
    THEN IF "def" \in code.marks /\ "colonEol" \in code.marks THEN "python"
         ELSE IF "publicClass" \in code.marks THEN "java"
         ELSE IF "include" \in code.marks /\ "printf" \in code.marks THEN "c"
         ELSE IF "include" \in code.marks /\ "coutStd" \in code.marks THEN "cpp"
         ELSE IF "typeDecl" \in code.marks /\ "colonWord" \in code.marks
         THEN "typescript"
         ELSE IF "js" \in code.marks THEN "javascript"
         ELSE ""
    ELSE ""

\* the content heuristics tried before the path's extension
DetectByContentFirst(filePath, code) ==
    LET ext == ToLowerCase(Extname(filePath))
    IN IF HeuristicLanguage(code) # "" THEN HeuristicLanguage(code)
       ELSE IF filePath # <<>> /\ TableHas(EXT_MAP, ext) THEN TableGet(EXT_MAP, ext)
       ELSE "python"

DetectLanguage(filePath, code) ==
    LET ext == ToLowerCase(Extname(filePath))
    IN IF filePath # <<>> /\ TableHas(EXT_MAP, ext) THEN TableGet(EXT_MAP, ext)
       ELSE IF HeuristicLanguage(code) # "" THEN HeuristicLanguage(code)
       ELSE "python"

\* `(languageOverride as SupportedLanguage) || detectLanguage(filePath, code)`
EstimateLanguage(r) ==
    IF r.languageOverride # "" THEN r.languageOverride
    ELSE DetectLanguage(r.filePath, r.code)

GetTreeSitterGrammarName(language) == language

Chars(str) ==
    CASE str = "a.py" -> <<"a", ".", "p", "y">>
      [] str = "a.PY" -> <<"a", ".", "P", "Y">>
      [] str = "A.Java" -> <<"A", ".", "J", "a", "v", "a">>
      [] str = "a.h" -> <<"a", ".", "h">>
      [] str = "a.c" -> <<"a", ".", "c">>
      [] str = "a.CC" -> <<"a", ".", "C", "C">>
      [] str = "a.txt" -> <<"a", ".", "t", "x", "t">>
      [] str = "a" -> <<"a">>
      [] str = ".py" -> <<".", "p", "y">>
      [] str = "..py" -> <<".", ".", "p", "y">>
      [] str = "a.py/c" -> <<"a", ".", "p", "y", "/", "c">>
      [] str = "a.js/" -> <<"a", ".", "j", "s", "/">>
      [] str = "a.c.ts" -> <<"a", ".", "c", ".", "t", "s">>
      [] str = ".." -> <<".", ".">>
      [] str = "" -> <<>>

Paths ==
    {Chars(str) : str \in {"", "a.py", "a.PY", "A.Java", "a.h", "a.c", "a.CC",
                           "a.txt", "a", ".py", "..py", "a.py/c", "a.js/",
                           "a.c.ts", ".."}}

Overrides == {"", "java", "cobol"}

Codes == {[text |-> "", marks |-> {}]}
            \cup {[text |-> "text", marks |-> m] : m \in SUBSET Marks}

\* the first statement of estimateCarbonFootprint(code, filePath, languageOverride)
SelectLanguage ==
    /\ pc = "detect"
    /\ lang' = EstimateLanguage(request)
    /\ pc' = "detected"
    /\ UNCHANGED <<root, idx, functions, globalOperations, assumptions,
                   variableConstants, observed, request, registry>>

InitDetect ==
    /\ request \in [code : Codes, filePath : Paths, languageOverride : Overrides]
    /\ lang = ""
    /\ root = Nil
    /\ pc = "detect"
    /\ idx = 0
    /\ functions = <<>>
    /\ globalOperations = NewOperationCount
    /\ assumptions = <<>>
    /\ variableConstants = {}
    /\ observed = <<>>
    /\ RegistryAtLoad

NextDetect == SelectLanguage

SpecDetect == InitDetect /\ [][NextDetect]_vars

\* the language each content heuristic yields and what it looks for, in the
\* order of the list
Heuristics ==
    << <<"python", {"def", "colonEol"}>>,
       <<"java", {"publicClass"}>>,
       <<"c", {"include", "printf"}>>,
       <<"cpp", {"include", "coutStd"}>>,
       <<"typescript", {"typeDecl", "colonWord"}>>,
       <<"javascript", {"js"}>> >>

Matching(code) ==
    {k \in 1..Len(Heuristics) : code.text # "" /\ Heuristics[k][2] \subseteq code.marks}

\* C7: the language is the override if one is given; otherwise the language
\* of the path's lower-cased extension if the table has it, whatever the
\* content; otherwise that of the first matching content heuristic in the
\* order python, java, c, cpp, typescript, javascript; otherwise python.
LanguagePrecedence ==
    pc = "detected" =>
        LET ext == ToLowerCase(Extname(request.filePath))
            byExt == {e \in EXT_MAP : e[1] = ext}
            hits == Matching(request.code)
        IN /\ request.languageOverride # "" => lang = request.languageOverride
           /\ (request.languageOverride = "" /\ byExt # {})
                => \E e \in byExt : lang = e[2]
           /\ (request.languageOverride = "" /\ byExt = {} /\ hits # {})
                => lang = Heuristics[CHOOSE k \in hits : \A j \in hits : k <= j][1]
           /\ (request.languageOverride = "" /\ byExt = {} /\ hits = {})
                => lang = "python"

\* an upper-case header extension wins over content that looks like python,
\* java and javascript at once
LanguagePrecedenceWitness ==
    /\ pc = "detected"
    /\ request.languageOverride = ""
    /\ request.filePath = <<"a", ".", "C", "C">>
    /\ {"def", "colonEol", "publicClass", "js"} \subseteq request.code.marks
    /\ lang = "cpp"

----------------------------------------------------------------------------
(* index.ts and treeSitterManager.ts: the orchestrator and the parser       *)
(* registry.  A call suspended at an await is an entry of `pending`; the    *)
(* environment decides whether Parser.init and Parser.Language.load         *)
(* succeed, whether parser.parse yields a tree and whether the walker       *)
(* throws.  Of the textual walker's result this section keeps the language, *)
(* the assumptions analyze() pushes first and the names of the functions.   *)

\* calls of estimate and estimate_sync altogether
MaxCalls == 2

\* calls suspended at the same time
MaxPending == 1

\* "ext" holds the grammars, "bare" holds none
ExtPaths == {"ext", "bare"}

\* the grammar .wasm files below <extPath>/parsers
GrammarFiles == {<<"ext", "python">>, <<"ext", "c">>}

FindGrammarWasm(grammarName) ==
    extensionPath # "" /\ <<extensionPath, grammarName>> \in GrammarFiles

IsGrammarAvailable(grammarName) ==
    grammarName \in parserCache \/ FindGrammarWasm(grammarName)

IsTreeSitterReady == initialized

\* N = M ; M = 2 ; def f(): for i in range(N): print("xxx")
PyLateConstant ==
    [text |-> "late", marks |-> {"def", "colonEol", "colonWord"},
     dialect |-> "python", defs |-> <<"f">>,
     root |-> Plain("module",
                    <<PyAssign("N", Leaf("identifier", "M", 0)),
                      PyAssign("M", PyInt(2)),
                      PyDef("f", <<Loop("python", "rangeN",
                                        LeafStmt("python", "io"))>>)>>)]

\* int f() { for (int i = 0; i < LoopBound; i++) printf("xxx"); }
CBareLoop ==
    [text |-> "bare", marks |-> {"printf"}, dialect |-> "c", defs |-> <<"f">>,
     root |-> Program("c", <<>>, <<"forKbare">>, "io")]

EmptyText ==
    [text |-> "", marks |-> {}, dialect |-> "", defs |-> <<>>, root |-> Nil]

Requests ==
    { [code |-> EmptyText, filePath |-> <<>>, languageOverride |-> ""],
      [code |-> PyLateConstant, filePath |-> <<>>, languageOverride |-> ""],
      [code |-> CBareLoop, filePath |-> Chars("a.c"), languageOverride |-> ""] }

RootType(grammarName) ==
    IF grammarName = "python" THEN "module"
    ELSE IF grammarName \in {"c", "cpp"} THEN "translation_unit"
    ELSE "program"

\* tree.rootNode of parser.parse(code)
ParseTree(code, grammarName) ==
    IF code.text = "" THEN Plain(RootType(grammarName), <<>>)
    ELSE IF code.dialect = grammarName THEN code.root
    ELSE Plain(RootType(grammarName), <<Plain("ERROR", <<>>)>>)

\* the top-level loop of analyze()
RECURSIVE AnalyzeChildren(_, _, _, _)
AnalyzeChildren(l, kids, i, vc) ==
    LET Push(step, rest) ==
            [funcs |-> step.funcs \o rest.funcs,
             asm |-> step.asm \o rest.asm,
             ops |-> Merge(step.ops, rest.ops)]
    IN IF i > Len(kids) THEN NoStep
       ELSE Push(AnalyzeTopLevel(l, kids[i], vc), AnalyzeChildren(l, kids, i + 1, vc))

\* analyze(rootNode) of the walker for language l, run by an analyzer whose
\* constant table holds `prior` on entry
Walked(l, vc, walk) ==
    [result |-> [language |-> l,
                 functions |-> walk.funcs,
                 globalOperations |-> walk.ops,
                 assumptions |-> HeaderAssumptions(l) \o walk.asm],
     table |-> vc]

AnalyzeWith(l, rootNode, vc) == Walked(l, vc, AnalyzeChildren(l, rootNode.kids, 1, vc))

Analyze(l, rootNode, prior) ==
    AnalyzeWith(l, rootNode, ExtractConstants(l, rootNode, ResetTable(prior)))

\* the assumptions without a note of the walker that made them
UnmarkedHeader(language) ==
    <<Assumption("energy", 0, ""), Assumption("carbon", 0, "")>>

\* the assumptions RegexAnalyzer.analyze pushes first
RegexHeader(language) ==
    <<Assumption("regex", 0, language), Assumption("energy", 0, ""),
      Assumption("carbon", 0, "")>>

RegexAnalyze(language, code) ==
    [language |-> language,
     functions |-> code.defs,
     assumptions |-> RegexHeader(language)]

\* `new AnalysisResult('unknown', ...)` with the single assumption
UndetectedResult ==
    [language |-> "unknown", functions |-> <<>>,
     assumptions |-> <<Assumption("undetected", 0, "")>>]

Fallback(r, language, cause) ==
    [walker |-> "regex", cause |-> cause,
     result |-> RegexAnalyze(language, r.code), table |-> variableConstants]

\* estimate from the return of parseCode on: rootNode (Nil when undefined)
\* goes to the walker of the language; no tree or a throwing walker ends in
\* the fallback
AstOutcome(run) ==
    [walker |-> "ast", cause |-> "", result |-> run.result, table |-> run.table]

AfterParse(r, language, rootNode, throws) ==
    IF rootNode = Nil THEN Fallback(r, language, "no-tree")
    ELSE IF throws THEN Fallback(r, language, "walker-threw")
    ELSE AstOutcome(Analyze(language, rootNode, variableConstants))

\* a returned result, with the state of the runtime when estimate was
\* called: initialized ("ready"), uninitialized with a failure of initialize
\* logged last ("failed"), or uninitialized otherwise ("down"); estimate_sync
\* does not look at the runtime ("unused")
Entry(r, ready, o) ==
    [request |-> r,
     runtime |-> IF o.cause = "sync" THEN "unused"
                 ELSE IF ready THEN "ready" ELSE IF initLog = "failed" THEN "failed"
                 ELSE "down",
     walker |-> o.walker, cause |-> o.cause,
     result |-> o.result]

One(e) == SetToBag({e})

InitializeOp == [op |-> "initialize"]

\* the estimate calls made so far
Estimates ==
    BagCardinality(returned) + BagCardinality(pending) - CopiesIn(InitializeOp, pending)

walker == <<lang, root, pc, idx, functions, globalOperations, assumptions,
            observed, request>>

\* initializeCarbonEstimator(extPath) up to `await Parser.init(...)`; when
\* the runtime is initialized initializeTreeSitter returns at once
InitializeCall ==
    /\ pc = "serve"
    /\ IF initialized
       THEN /\ initLog' = "initialized"
            /\ UNCHANGED <<extensionPath, pending>>
       ELSE /\ BagCardinality(pending) < MaxPending
            /\ \E extPath \in ExtPaths : extensionPath' = extPath
            /\ pending' = pending (+) One(InitializeOp)
            /\ UNCHANGED initLog
    /\ UNCHANGED <<walker, objects, variableConstants, initialized, parserCache, returned>>

\* Parser.init resolves: `initialized = true`
InitializeSucceeds(c) ==
    /\ pc = "serve"
    /\ BagIn(c, pending)
    /\ c.op = "initialize"
    /\ initialized' = TRUE
    /\ initLog' = "initialized"
    /\ pending' = pending (-) One(c)
    /\ UNCHANGED <<walker, objects, variableConstants, extensionPath, parserCache, returned>>

\* Parser.init rejects with `initialized = true` set ahead of the await
InitializeFailsReady(c) ==
    /\ pc = "serve"
    /\ BagIn(c, pending)
    /\ c.op = "initialize"
    /\ initialized' = TRUE
    /\ initLog' = "failed"
    /\ pending' = pending (-) One(c)
    /\ UNCHANGED <<walker, objects, variableConstants, extensionPath, parserCache, returned>>

\* Parser.init rejects: initializeCarbonEstimator catches and logs
InitializeFails(c) ==
    /\ pc = "serve"
    /\ BagIn(c, pending)
    /\ c.op = "initialize"
    /\ initLog' = "failed"
    /\ pending' = pending (-) One(c)
    /\ UNCHANGED <<walker, objects, variableConstants, initialized, extensionPath,
                   parserCache, returned>>

\* disposeTreeSitter()
DisposeTreeSitter ==
    /\ pc = "serve"
    /\ parserCache' = {}
    /\ initialized' = FALSE
    /\ UNCHANGED <<walker, objects, variableConstants, extensionPath, pending, initLog, returned>>

\* estimateCarbonFootprint(code, filePath, languageOverride) up to its
\* return or to `await Parser.Language.load(wasmFile)` inside getParser
EstimateCall(r) ==
    /\ pc = "serve"
    /\ Estimates < MaxCalls
    /\ LET language == EstimateLanguage(r)
           grammarName == GetTreeSitterGrammarName(language)
           Return(o) ==
               /\ returned' = returned (+) One(Entry(r, initialized, o))
               /\ variableConstants' = o.table
               /\ UNCHANGED pending
       IN /\ IF language = ""
             THEN Return([walker |-> "none", cause |-> "undetected",
                          result |-> UndetectedResult,
                          table |-> variableConstants])
             ELSE IF ~IsTreeSitterReady
             THEN Return(Fallback(r, language, "uninitialized"))
             ELSE IF ~IsGrammarAvailable(grammarName)
             THEN Return(Fallback(r, language, "no-grammar"))
             ELSE IF grammarName \in parserCache
             THEN \E parsed, throws \in BOOLEAN :
                     Return(AfterParse(r, language,
                                       IF parsed THEN ParseTree(r.code, grammarName)
                                       ELSE Nil,
                                       throws))
             ELSE IF ~FindGrammarWasm(grammarName)
             THEN Return(Fallback(r, language, "no-tree"))
             ELSE /\ BagCardinality(pending) < MaxPending
                  /\ pending' = pending (+) One([op |-> "estimate", request |-> r,
                                                language |-> language,
                                                grammarName |-> grammarName])
                  /\ UNCHANGED <<returned, variableConstants>>
    /\ UNCHANGED <<walker, objects, initialized, extensionPath, parserCache, initLog>>

\* Parser.Language.load resolves: the parser goes into the cache, parseCode
\* parses and estimate runs the walker
GrammarLoaded(c) ==
    /\ pc = "serve"
    /\ BagIn(c, pending)
    /\ c.op = "estimate"
    /\ parserCache' = parserCache \cup {c.grammarName}
    /\ LET Return(o) ==
               /\ returned' = returned (+) One(Entry(c.request, TRUE, o))
               /\ variableConstants' = o.table
       IN \E parsed, throws \in BOOLEAN :
             Return(AfterParse(c.request, c.language,
                               IF parsed THEN ParseTree(c.request.code, c.grammarName)
                               ELSE Nil,
                               throws))
    /\ pending' = pending (-) One(c)
    /\ UNCHANGED <<walker, objects, initialized, extensionPath, initLog>>

\* Parser.Language.load rejects: getParser returns undefined
GrammarLoadFails(c) ==
    /\ pc = "serve"
    /\ BagIn(c, pending)
    /\ c.op = "estimate"
    /\ returned' = returned (+) One(Entry(c.request, TRUE,
                                         Fallback(c.request, c.language, "no-tree")))
    /\ pending' = pending (-) One(c)
    /\ UNCHANGED <<walker, objects, variableConstants, initialized, extensionPath,
                   parserCache, initLog>>

\* estimateCarbonFootprintSync(code, filePath, languageOverride)
EstimateSyncCall(r) ==
    /\ pc = "serve"
    /\ Estimates < MaxCalls
    /\ LET language == EstimateLanguage(r)
       IN returned' =
            returned (+)
              One(Entry(r, initialized,
                        IF language = ""
                        THEN [walker |-> "none", cause |-> "undetected",
                              result |-> UndetectedResult]
                        ELSE [walker |-> "regex", cause |-> "sync",
                              result |-> RegexAnalyze(language, r.code)]))
    /\ UNCHANGED <<walker, objects, variableConstants, initialized, extensionPath,
                   parserCache, pending, initLog>>

InitOrch ==
    /\ lang = ""
    /\ root = Nil
    /\ pc = "serve"
    /\ idx = 0
    /\ functions = <<>>
    /\ globalOperations = NewOperationCount
    /\ assumptions = <<>>
    /\ variableConstants = {}
    /\ observed = <<>>
    /\ request = NoRequest
    /\ RegistryAtLoad

NextOrch ==
    \/ InitializeCall
    \/ \E c \in BagToSet(pending) : InitializeSucceeds(c)
    \/ \E c \in BagToSet(pending) : InitializeFails(c)
    \/ DisposeTreeSitter
    \/ \E r \in Requests : EstimateCall(r)
    \/ \E c \in BagToSet(pending) : GrammarLoaded(c)
    \/ \E c \in BagToSet(pending) : GrammarLoadFails(c)
    \/ \E r \in Requests : EstimateSyncCall(r)

SpecOrch == InitOrch /\ [][NextOrch]_vars

----------------------------------------------------------------------------
(* Properties of the orchestrator *)

Returned == BagToSet(returned)

\* the results estimate (not estimate_sync) has returned
FromEstimate == {e \in Returned : e.cause # "sync"}

\* no path, no override, and a text none of the content heuristics matches
Featureless(r) ==
    r.filePath = <<>> /\ r.languageOverride = "" /\ Matching(r.code) = {}

\* C6: estimate and estimate_sync called with no path, no override and a text
\* without recognizable language features return a result with zero functions
\* and exactly one assumption, 'Language could not be detected - no analysis
\* performed'.
UndetectedLanguageResult ==
    \A e \in Returned :
        Featureless(e.request)
            => /\ Len(e.result.functions) = 0
               /\ e.result.assumptions = <<Assumption("undetected", 0, "")>>

\* C8 as claimed: two calls of estimate with the same text, path and override
\* return equal results, whatever calls of initialize, dispose or estimate
\* happened before or between them.
EstimateDeterminism ==
    \A a, b \in FromEstimate : a.request = b.request => a.result = b.result

\* C8: two calls of estimate with the same text, path and override that are
\* served by the same walker return equal results; served by different
\* walkers they differ in their assumptions.
SameWalkerSameResult ==
    \A a, b \in FromEstimate :
        a.request = b.request
            => /\ a.walker = b.walker => a.result = b.result
               /\ a.walker # b.walker
                    => a.result.assumptions # b.result.assumptions

\* the same text analysed twice by the AST walker, the second time with the
\* parser taken from the cache
SameWalkerSameResultWitness ==
    /\ "python" \in parserCache
    /\ \E e \in Returned :
          /\ e.walker = "ast"
          /\ e.request.code = PyLateConstant
          /\ CopiesIn(e, returned) = 2
          /\ e.result.functions[1].operations["io_operation"] = DEFAULT_LOOP_ITERATIONS

HasFallbackNote(result) ==
    \E k \in 1..Len(result.assumptions) : result.assumptions[k].kind = "regex"

\* C9: every result of the textual fallback walker, whether estimate returned
\* it because the runtime was uninitialized, the grammar missing, the parse
\* without a tree or the AST walker threw, or estimate_sync returned it, holds
\* an assumption recording the fallback, and no result of an AST walker does.
FallbackRecorded ==
    \A e \in Returned :
        /\ e.walker = "regex" => HasFallbackNote(e.result)
        /\ e.walker = "ast" => ~HasFallbackNote(e.result)
        /\ e.cause \in {"uninitialized", "no-grammar", "no-tree", "walker-threw",
                        "sync"} => e.walker = "regex"

\* the result of a call whose walker threw beside an AST result
FallbackRecordedWitness ==
    /\ \E e \in Returned : e.cause = "walker-threw" /\ HasFallbackNote(e.result)
    /\ \E e \in Returned :
          e.walker = "ast" /\ e.result.language = "c" /\ Len(e.result.functions) = 1

\* C10: a failure of initialize is swallowed and leaves the runtime
\* uninitialized; every estimate called while it is uninitialized returns
\* within the call, with the fallback walker's result; and when the AST
\* walker throws, estimate returns the fallback walker's result.
FailureFallsBack ==
    /\ [](\A e \in Returned :
            (e.runtime \in {"failed", "down"} \/ e.cause = "walker-threw")
                => e.walker = "regex")
    /\ [][\A c \in BagToSet(pending) :
            InitializeFails(c) => (initialized' = initialized /\ returned' = returned)]_vars
    /\ [][\A r \in Requests :
            (EstimateCall(r) /\ ~initialized)
                => /\ pending' = pending
                   /\ BagCardinality(returned') = BagCardinality(returned) + 1]_vars

\* estimate served by the fallback after a failed initialize, and another
\* whose AST walker threw
FailureFallsBackWitness ==
    /\ \E e \in FromEstimate :
          e.runtime = "failed" /\ e.walker = "regex" /\ e.cause = "uninitialized"
    /\ \E e \in FromEstimate :
          e.runtime = "ready" /\ e.walker = "regex" /\ e.cause = "walker-threw"

----------------------------------------------------------------------------
(* treeSitterManager.ts on its own: the runtime, the parser cache and the   *)
(* Parser objects behind its keys.  A parser is [grammarName, deleted,      *)
(* inCache]: `deleted` counts the calls of parser.delete() on it and        *)
(* `inCache` says that parserCache holds it under its grammar name.         *)

\* calls of the manager suspended at an await at the same time
MaxInFlight == 2

\* Parser objects constructed at most
MaxParsers == 3

\* "java" has no .wasm file under any extension path
GrammarNames == {"python", "c", "java"}

InitOp == [op |-> "init"]

LoadOp(grammarName) == [op |-> "load", grammarName |-> grammarName]

Loads == BagCardinality(pending) - CopiesIn(InitOp, pending)

\* what parseCode returned last
Parsed(grammarName, value) ==
    [getter |-> "parseCode", grammarName |-> grammarName, value |-> value]

\* new Parser() for a loaded language
NewParser(grammarName) ==
    [grammarName |-> grammarName, deleted |-> 0, inCache |-> TRUE]

\* parserCache.set(grammarName, parser): the parser held under the key before
\* is no longer held
CacheSet(ps, grammarName) ==
    Append([i \in 1..Len(ps) |->
               IF ps[i].grammarName = grammarName
               THEN [ps[i] EXCEPT !.inCache = FALSE] ELSE ps[i]],
           NewParser(grammarName))

\* parserCache.clear() without the parser.delete() calls
ClearWithoutDelete(ps) ==
    [i \in 1..Len(ps) |-> [ps[i] EXCEPT !.inCache = FALSE]]

\* for (const parser of parserCache.values()) parser.delete(); parserCache.clear()
DeleteCached(ps) ==
    [i \in 1..Len(ps) |->
        IF ps[i].inCache
        THEN [ps[i] EXCEPT !.deleted = @ + 1, !.inCache = FALSE] ELSE ps[i]]

\* initializeTreeSitter(extPath) up to `await Parser.init(...)`
InitializeTreeSitter(extPath) ==
    /\ pc = "manage"
    /\ IF initialized
       THEN /\ sinceDispose' = [sinceDispose EXCEPT !.tornDown = FALSE,
                                                    !.quiet = FALSE]
            /\ UNCHANGED <<extensionPath, pending>>
       ELSE /\ BagCardinality(pending) < MaxInFlight
            /\ extensionPath' = extPath
            /\ pending' = pending (+) One(InitOp)
            /\ sinceDispose' =
                 [sinceDispose EXCEPT !.firstRoot = IF @ = "" THEN extPath ELSE @,
                                      !.tornDown = FALSE, !.quiet = FALSE]
    /\ UNCHANGED <<walker, variableConstants, initialized, parserCache, initLog,
                   returned, parsers>>

\* Parser.init resolves: `initialized = true`
ParserInitResolves ==
    /\ pc = "manage"
    /\ BagIn(InitOp, pending)
    /\ initialized' = TRUE
    /\ pending' = pending (-) One(InitOp)
    /\ sinceDispose' = [sinceDispose EXCEPT !.initialisations = @ + 1]
    /\ UNCHANGED <<walker, variableConstants, extensionPath, parserCache, initLog,
                   returned, parsers>>

\* Parser.init rejects: initializeTreeSitter throws to its caller
ParserInitRejects ==
    /\ pc = "manage"
    /\ BagIn(InitOp, pending)
    /\ pending' = pending (-) One(InitOp)
    /\ UNCHANGED <<lang, root, pc, idx, functions, globalOperations, assumptions,
                   observed, request>>
    /\ UNCHANGED <<variableConstants, initialized, extensionPath, parserCache,
                   initLog, returned, objects>>

\* parseCode(code, grammarName) with its getParser, up to its return or to
\* `await Parser.Language.load(wasmFile)`; parser.parse may throw
ParseCode(grammarName) ==
    /\ pc = "manage"
    /\ IF ~initialized
       THEN observed' = Parsed(grammarName, "undefined") /\ UNCHANGED pending
       ELSE IF grammarName \in parserCache
       THEN /\ \E parsed \in BOOLEAN :
                  observed' = Parsed(grammarName,
                                     IF parsed THEN "tree" ELSE "undefined")
            /\ UNCHANGED pending
       ELSE IF ~FindGrammarWasm(grammarName)
       THEN observed' = Parsed(grammarName, "undefined") /\ UNCHANGED pending
       ELSE /\ BagCardinality(pending) < MaxInFlight
            /\ Len(parsers) + Loads < MaxParsers
            /\ pending' = pending (+) One(LoadOp(grammarName))
            /\ UNCHANGED observed
    /\ UNCHANGED <<lang, root, pc, idx, functions, globalOperations, assumptions,
                   request>>
    /\ UNCHANGED <<variableConstants, initialized, extensionPath, parserCache,
                   initLog, returned, objects>>

\* Parser.Language.load resolves: a new Parser goes into the cache and parses
LanguageLoadResolves(c) ==
    /\ pc = "manage"
    /\ BagIn(c, pending)
    /\ c.op = "load"
    /\ parsers' = CacheSet(parsers, c.grammarName)
    /\ parserCache' = parserCache \cup {c.grammarName}
    /\ \E parsed \in BOOLEAN :
          observed' = Parsed(c.grammarName, IF parsed THEN "tree" ELSE "undefined")
    /\ pending' = pending (-) One(c)
    /\ UNCHANGED <<lang, root, pc, idx, functions, globalOperations, assumptions,
                   request>>
    /\ UNCHANGED <<variableConstants, initialized, extensionPath, initLog, returned,
                   sinceDispose>>

\* Parser.Language.load rejects: getParser returns undefined
LanguageLoadRejects(c) ==
    /\ pc = "manage"
    /\ BagIn(c, pending)
    /\ c.op = "load"
    /\ observed' = Parsed(c.grammarName, "undefined")
    /\ pending' = pending (-) One(c)
    /\ UNCHANGED <<lang, root, pc, idx, functions, globalOperations, assumptions,
                   request>>
    /\ UNCHANGED <<variableConstants, initialized, extensionPath, parserCache,
                   initLog, returned, objects>>

\* disposeTreeSitter() with the Parser objects it deletes
DisposeParsers ==
    /\ pc = "manage"
    /\ parsers' = DeleteCached(parsers)
    /\ parserCache' = {}
    /\ initialized' = FALSE
    /\ sinceDispose' = [NoHistory EXCEPT !.tornDown = (Loads = 0),
                                         !.quiet = (pending = EmptyBag)]
    /\ UNCHANGED <<walker, variableConstants, extensionPath, pending, initLog,
                   returned>>

InitManager ==
    /\ lang = ""
    /\ root = Nil
    /\ pc = "manage"
    /\ idx = 0
    /\ functions = <<>>
    /\ globalOperations = NewOperationCount
    /\ assumptions = <<>>
    /\ variableConstants = {}
    /\ observed = Parsed("", "none")
    /\ request = NoRequest
    /\ RegistryAtLoad

NextManager ==
    \/ \E extPath \in ExtPaths : InitializeTreeSitter(extPath)
    \/ ParserInitResolves
    \/ ParserInitRejects
    \/ \E grammarName \in GrammarNames : ParseCode(grammarName)
    \/ \E c \in BagToSet(pending) : LanguageLoadResolves(c)
    \/ \E c \in BagToSet(pending) : LanguageLoadRejects(c)
    \/ DisposeParsers

SpecManager == InitManager /\ [][NextManager]_vars

----------------------------------------------------------------------------
(* Properties of the manager *)

\* a parseCode call returned undefined within the call: estimate falls back
ReturnedUndefined(grammarName) ==
    /\ pending' = pending
    /\ observed' = Parsed(grammarName, "undefined")

\* C11 as claimed: after disposeTreeSitter returns with no parse in flight
\* every parser that was in the cache has been deleted exactly once, the cache
\* is empty and the runtime uninitialized; it stays so until
\* initializeTreeSitter is called anew, so the next parse is refused and
\* estimate falls back; disposing again changes nothing.
TeardownIsFinal ==
    /\ [][(DisposeParsers /\ Loads = 0)
            => /\ \A i \in 1..Len(parsers) :
                     parsers[i].inCache
                         => (parsers[i].deleted = 0 /\ parsers'[i].deleted = 1)
               /\ parserCache' = {}
               /\ ~initialized']_vars
    /\ [](sinceDispose.tornDown => (~initialized /\ parserCache = {}))
    /\ [][\A grammarName \in GrammarNames :
            (ParseCode(grammarName) /\ sinceDispose.tornDown)
                => ReturnedUndefined(grammarName)]_vars
    /\ [][(DisposeParsers /\ sinceDispose.tornDown)
            => UNCHANGED <<initialized, parserCache, parsers>>]_vars

\* C11: after disposeTreeSitter returns with no parse and no initialize in
\* flight every parser that was in the cache has been deleted exactly once, the
\* cache is empty and the runtime uninitialized; it stays so until
\* initializeTreeSitter is called anew, so the next parse is refused and
\* estimate falls back; disposing again changes nothing.
TeardownIsFinalWhenQuiet ==
    /\ [][(DisposeParsers /\ pending = EmptyBag)
            => /\ \A i \in 1..Len(parsers) :
                     parsers[i].inCache
                         => (parsers[i].deleted = 0 /\ parsers'[i].deleted = 1)
               /\ parserCache' = {}
               /\ ~initialized']_vars
    /\ [](sinceDispose.quiet => (~initialized /\ parserCache = {}))
    /\ [][\A grammarName \in GrammarNames :
            (ParseCode(grammarName) /\ sinceDispose.quiet)
                => ReturnedUndefined(grammarName)]_vars
    /\ [][(DisposeParsers /\ sinceDispose.quiet)
            => UNCHANGED <<initialized, parserCache, parsers>>]_vars

\* two cached parsers deleted by a quiet dispose, and a parse of a grammar that
\* has a .wasm file refused after it
TeardownIsFinalWhenQuietWitness ==
    /\ sinceDispose.quiet
    /\ extensionPath = "ext"
    /\ Len(parsers) = 2
    /\ \A i \in 1..Len(parsers) : parsers[i].deleted = 1 /\ ~parsers[i].inCache
    /\ parsers[1].grammarName # parsers[2].grammarName
    /\ observed = Parsed("python", "undefined")

Live(grammarName) ==
    {i \in 1..Len(parsers) :
        parsers[i].grammarName = grammarName /\ parsers[i].deleted = 0}

\* C12: cache inserts of overlapping parses of one grammar are serialized: at
\* most one parser of a grammar is constructed and not yet deleted, and every
\* parser ever constructed is in the cache or has been deleted.
CacheInsertsSerialized ==
    /\ \A grammarName \in GrammarNames : Cardinality(Live(grammarName)) <= 1
    /\ \A i \in 1..Len(parsers) : parsers[i].inCache \/ parsers[i].deleted >= 1

\* C13: without a dispose in between, whatever the interleaving of the
\* initializeTreeSitter calls, Parser.init takes effect at most once and the
\* extension root is the one of the first call; a call made while initialized
\* changes no state of the manager.
InitializeOnce ==
    /\ [](sinceDispose.initialisations <= 1)
    /\ [](sinceDispose.firstRoot # "" => extensionPath = sinceDispose.firstRoot)
    /\ [][\A extPath \in ExtPaths :
            (InitializeTreeSitter(extPath) /\ initialized)
                => UNCHANGED <<initialized, extensionPath, parserCache, pending,
                               parsers>>]_vars


----------------------------------------------------------------------------
(* Properties of the constant table across analyzeFunction *)

\* the function analyzeFunction is entered for in the current iteration
Entered == FunctionDefOf(lang, root.kids[idx])

\* C14: in both AST walkers, when analyzeFunction returns normally the constant
\* table is the table it was before the function was entered.
TableRestoredOnReturn ==
    [][(AnalyzeChild /\ Entered # Nil)
          => variableConstants' = variableConstants]_vars

\* a function has been analyzed whose own bindings differ from the table in
\* force outside it
TableRestoredOnReturnWitness ==
    /\ pc = "walk"
    /\ idx = 2
    /\ Len(functions) = 1
    /\ FunctionDefOf(lang, root.kids[1]) # Nil
    /\ ExtractConstants(lang, root.kids[1], variableConstants) # variableConstants
    /\ variableConstants = ExtractConstants(lang, root, {})

\* C15: when the walk of a function body is left by an exception the constant
\* table is the table it was before the function was entered.
TableRestoredOnAbort ==
    [][(AnalyzeFunctionThrows /\ Entered # Nil)
          => variableConstants' = variableConstants]_vars


----------------------------------------------------------------------------
(* Call nodes on their own: analyzeExpression applied to one call *)

\* largest multiplier a call is reached at
MaxMultiplier == 2

\* the callee `name`, `obj.name` or (C++) `obj::name` as the grammar of the
\* language parses it
Callee(l, obj, name, sep) ==
    IF obj = "" THEN Leaf("identifier", name, 0)
    ELSE IF l = "python"
    THEN Node("attribute", "", 0, <<"object", "attribute">>,
              <<Leaf("identifier", obj, 0), Leaf("identifier", name, 0)>>)
    ELSE IF l = "javascript"
    THEN Node("member_expression", "", 0, <<"object", "property">>,
              <<Leaf("identifier", obj, 0), Leaf("property_identifier", name, 0)>>)
    ELSE IF sep = "::"
    THEN Node("qualified_identifier", "", 0, <<"scope", "name">>,
              <<Leaf("namespace_identifier", obj, 0), Leaf("identifier", name, 0)>>)
    ELSE Node("field_expression", "", 0, <<"argument", "field">>,
              <<Leaf("identifier", obj, 0), Leaf("field_identifier", name, 0)>>)

\* callee(args)
CallNode(l, callee, args) ==
    IF l = "python"
    THEN Node("call", "", 0, <<"function", "arguments">>,
              <<callee, Plain("argument_list", args)>>)
    ELSE Node("call_expression", "", 0, <<"function", "arguments">>,
              <<callee, Plain(IF l = "javascript" THEN "arguments"
                              ELSE "argument_list", args)>>)

CallDialects == {"python", "javascript", "c", "cpp"}

\* the names called and the objects they are called on ("" for none)
CalleeNames(l) ==
    CASE l = "python" -> {"print", "open", "get", "urlopen", "list", "sorted",
                          "sum", "append", "work"}
      [] l = "javascript" -> {"log", "fetch", "request", "work"}
      [] OTHER -> {"printf", "socket", "malloc", "curl_easy_perform", "work"}

CalleeObjects(l) ==
    CASE l = "python" -> {"", "x", "reader", "socket"}
      [] l = "javascript" -> {"", "x", "console", "fs", "http"}
      [] l = "c" -> {"", "dev"}
      [] OTHER -> {"", "dev", "std"}

\* the argument lists: none, or one call of a function of the program
CallArguments(l) ==
    {<<>>, <<CallNode(l, Leaf("identifier", "g", 0), <<>>)>>}

CallNodes(l) ==
    {CallNode(l, Callee(l, obj, name, IF obj = "std" THEN "::" ELSE "."), args) :
        obj \in CalleeObjects(l), name \in CalleeNames(l), args \in CallArguments(l)}

AnalyzeExpression(l, node, multiplier) ==
    IF l = "python" THEN PyAnalyzeExpression(node, multiplier)
    ELSE CAnalyzeExpression(l, node, multiplier)

\* analyzeExpression(node, multiplier) for a call node
AnalyzeCall ==
    /\ pc = "call"
    /\ globalOperations' = AnalyzeExpression(lang, root, idx)
    /\ pc' = "counted"
    /\ UNCHANGED <<request, registry>>
    /\ UNCHANGED <<lang, root, idx, functions, assumptions, variableConstants,
                   observed>>

InitCalls ==
    /\ lang \in CallDialects
    /\ root \in CallNodes(lang)
    /\ idx \in 1..MaxMultiplier
    /\ pc = "call"
    /\ functions = <<>>
    /\ globalOperations = NewOperationCount
    /\ assumptions = <<>>
    /\ variableConstants = {}
    /\ observed = <<>>
    /\ request = NoRequest
    /\ RegistryAtLoad

NextCalls == AnalyzeCall

SpecCalls == InitCalls /\ [][NextCalls]_vars

----------------------------------------------------------------------------
(* Properties of the call classification *)

\* the callee of the call under analysis: its last name and its whole path
ShortName ==
    IF Len(Kid(root, 1).kids) = 0 THEN Kid(root, 1).text
    ELSE Kid(Kid(root, 1), 2).text

CalleePath ==
    IF Len(Kid(root, 1).kids) = 0 THEN Spell(ShortName)
    ELSE Spell(Kid(Kid(root, 1), 1).text)
         \o (IF Kid(root, 1).type = "qualified_identifier" THEN <<":", ":">>
             ELSE <<".">>)
         \o Spell(ShortName)

ClassifiedAs(l, short, path) ==
    IF short \in IO_FUNCTIONS(l) THEN "io_operation"
    ELSE IF \E io \in IO_CALL_SUBSTRINGS(l) : Includes(path, io) THEN "io_operation"
    ELSE IF short \in NETWORK_FUNCTIONS(l) THEN "network_operation"
    ELSE IF \E net \in NETWORK_CALL_SUBSTRINGS(l) : Includes(path, net)
    THEN "network_operation"
    ELSE IF short \in ALLOC_FUNCTIONS(l) THEN "memory_allocation"
    ELSE "function_call"

\* what the arguments of the call under analysis add
ArgumentCounts ==
    IF Len(Kid(root, 2).kids) = 0 THEN NewOperationCount
    ELSE Add(NewOperationCount, "function_call", idx)

\* C16: in both AST walkers a call node is classified by first match in the
\* order I/O short name, I/O substring of the dotted name, network short name,
\* network substring, allocation, otherwise function_call, and adds its
\* multiplier to exactly that one of io_operation, network_operation,
\* memory_allocation and function_call; a call whose short name is in the
\* I/O set is io_operation whatever path it is called through.
CallClassification ==
    pc = "counted"
        => globalOperations
              = Merge(Add(NewOperationCount,
                          ClassifiedAs(lang, ShortName, CalleePath), idx),
                      ArgumentCounts)


----------------------------------------------------------------------------
(* OperationCount.scale on its own: chains c.scale(a).scale(b)... *)

\* largest factor, largest count of the receiver, longest chain of scale calls
MaxFactor == 2

MaxCount == 2

MaxChain == 2

\* the scaled counter holding the receiver's own Map
ScaleInPlace(c, factor) ==
    [receiver |-> [op \in OpTypes |-> c[op] * factor],
     scaled |-> [op \in OpTypes |-> c[op] * factor]]

\* c.scale(factor): the receiver after the call and the counter returned
ScaleCall(c, factor) == [receiver |-> c, scaled |-> Scale(c, factor)]

\* the receivers: counts of two kinds, counts below zero included
ScaleCounters ==
    {[op \in OpTypes |-> IF op = "comparison" THEN v
                         ELSE IF op = "io_operation" THEN w ELSE 0] :
        v \in -1..MaxCount, w \in 0..MaxCount}

NoScale == [getter |-> "none", factors |-> <<>>, value |-> NewOperationCount]

\* `.scale(factor)` on the counter the chain has reached
ScaleCounter(factor) ==
    /\ pc = "scale"
    /\ Len(observed.factors) < MaxChain
    /\ LET Chained(r) ==
               /\ observed' = [getter |-> "scale",
                               factors |-> Append(observed.factors, factor),
                               value |-> r.scaled]
               /\ globalOperations' =
                      IF observed.getter = "none" THEN r.receiver
                      ELSE globalOperations
       IN Chained(ScaleCall(IF observed.getter = "none" THEN globalOperations
                            ELSE observed.value, factor))
    /\ UNCHANGED <<request, registry>>
    /\ UNCHANGED <<lang, root, pc, idx, functions, assumptions, variableConstants>>

InitScale ==
    /\ lang = "python"
    /\ root = Nil
    /\ pc = "scale"
    /\ idx = 0
    /\ functions = <<>>
    /\ globalOperations \in ScaleCounters
    /\ assumptions = <<>>
    /\ variableConstants = {}
    /\ observed = NoScale
    /\ request = NoRequest
    /\ RegistryAtLoad

NextScale == \E factor \in 0..MaxFactor : ScaleCounter(factor)

SpecScale == InitScale /\ [][NextScale]_vars

----------------------------------------------------------------------------
(* Properties of scale *)

RECURSIVE Product(_)
Product(factors) ==
    IF Len(factors) = 0 THEN 1 ELSE Head(factors) * Product(Tail(factors))

----------------------------------------------------------------------------
(* regexAnalyzer.ts: the source text as lines of tokens                   *)
(* A regular expression of the analyzer is applied to the tokens it would  *)
(* match in the characters: \w+ is a word or a number, \d+ a number, an    *)
(* operator is the longest run of operator characters, a string literal    *)
(* holds no operator character and a comment runs to the end of its line.  *)

Word(s) == [k |-> "word", s |-> s, n |-> 0]

Digits(n) == [k |-> "digits", s |-> "", n |-> n]

Mark(s) == [k |-> "mark", s |-> s, n |-> 0]

Quoted == [k |-> "string", s |-> "", n |-> 0]

Remark == [k |-> "comment", s |-> "", n |-> 0]

\* "\n" in a text kept as one sequence of tokens
Newline == [k |-> "newline", s |-> "", n |-> 0]

\* a line: the width of its leading white space and its tokens
TextLine(indent, toks) == [indent |-> indent, toks |-> toks]

IsName(tok) == tok.k \in {"word", "digits"}

\* the words of the input texts that match [A-Z_]+ and [A-Z_][A-Z0-9_]*
UpperWords == {"N", "M"}

At(toks, i) == IF i \in 1..Len(toks) THEN toks[i] ELSE Newline

\* the last index of `tok` in toks, 0 when it is not there
LastOf(toks, tok) ==
    IF \E i \in 1..Len(toks) : toks[i] = tok
    THEN CHOOSE i \in 1..Len(toks) :
            toks[i] = tok /\ \A j \in (i + 1)..Len(toks) : toks[j] # tok
    ELSE 0

\* the first index from `from` on of `tok` in toks, 0 when it is not there
NextOf(toks, from, tok) ==
    IF \E i \in from..Len(toks) : toks[i] = tok
    THEN CHOOSE i \in from..Len(toks) :
            toks[i] = tok /\ \A j \in from..(i - 1) : toks[j] # tok
    ELSE 0

\* RegexAnalyzer.removeComments: `#...` and `//...` to the end of the line,
\* `/*...*/` within a line (the texts hold no docstring)
RemoveComments(lines) ==
    [i \in 1..Len(lines) |->
        TextLine(lines[i].indent,
                 SelectSeq(lines[i].toks, LAMBDA tok : tok.k # "comment"))]

\* code.split('\n') of a text kept as one sequence of tokens
RECURSIVE SplitLines(_)
SplitLines(code) ==
    LET Cut(nl) ==
            IF nl = 0 THEN <<code>>
            ELSE <<SubSeq(code, 1, nl - 1)>>
                 \o SplitLines(SubSeq(code, nl + 1, Len(code)))
    IN Cut(NextOf(code, 1, Newline))

\* lines.join('\n')
RECURSIVE JoinLines(_)
JoinLines(lines) ==
    IF Len(lines) = 0 THEN <<>>
    ELSE IF Len(lines) = 1 THEN lines[1].toks
    ELSE lines[1].toks \o <<Newline>> \o JoinLines(Tail(lines))

----------------
(* regexAnalyzer.ts: constants and loop estimates *)

\* RegexAnalyzer.extractConstants, python: /^([A-Z_][A-Z0-9_]*)\s*=\s*(\d+)\s*$/gm
RECURSIVE RxPyConstants(_, _, _)
RxPyConstants(lines, i, vc) ==
    LET Bound(line) ==
            IF line.indent = 0 /\ Len(line.toks) = 3
               /\ line.toks[1].k = "word" /\ line.toks[1].s \in UpperWords
               /\ line.toks[2] = Mark("=") /\ line.toks[3].k = "digits"
            THEN TableSet(vc, line.toks[1].s, line.toks[3].n)
            ELSE vc
    IN IF i > Len(lines) THEN vc
       ELSE RxPyConstants(lines, i + 1, Bound(lines[i]))

\* RegexAnalyzer.extractConstants, brace languages:
\* /(?:const|final|static|#define)\s+(?:\w+\s+)?(\w+)\s*=?\s*(\d+)/g
RECURSIVE RxBraceConstants(_, _, _)
RxBraceConstants(code, i, vc) ==
    LET Opens == code[i] \in {Word("const"), Word("final"), Word("static"),
                              Word("define")}
        Typed == At(code, i + 1).k = "word" /\ At(code, i + 2).k = "word"
                 /\ At(code, i + 3) = Mark("=") /\ At(code, i + 4).k = "digits"
        Bare == At(code, i + 1).k = "word"
                /\ \/ At(code, i + 2).k = "digits"
                   \/ At(code, i + 2) = Mark("=") /\ At(code, i + 3).k = "digits"
    IN IF i > Len(code) THEN vc
       ELSE IF Opens /\ Typed
       THEN RxBraceConstants(code, i + 5,
                             TableSet(vc, code[i + 2].s, code[i + 4].n))
       ELSE IF Opens /\ Bare
       THEN RxBraceConstants(code, i + 3,
                             TableSet(vc, code[i + 1].s,
                                      IF code[i + 2].k = "digits" THEN code[i + 2].n
                                      ELSE code[i + 3].n))
       ELSE RxBraceConstants(code, i + 1, vc)

\* the value of (\d+|NAME): the number, the constant of that name, or none
RxEndValue(tok, vc) ==
    IF tok.k = "digits" THEN Some(tok.n)
    ELSE IF TableHas(vc, tok.s) THEN Some(TableGet(vc, tok.s))
    ELSE Undefined

\* RegexAnalyzer.estimatePythonForIterations
RxPythonForIterations(iterable, vc) ==
    LET n == Len(iterable)
        Range == n >= 3 /\ iterable[1] = Word("range") /\ iterable[2] = Mark("(")
                 /\ iterable[n] = Mark(")")
        Numbers(k) == /\ n = 2 * k + 2
                      /\ \A j \in 1..k : iterable[2 * j + 1].k = "digits"
                      /\ \A j \in 1..(k - 1) : iterable[2 * j + 2] = Mark(",")
        Literal == n >= 2 /\ <<iterable[1], iterable[n]>>
                                \in {<<Mark("["), Mark("]")>>,
                                     <<Mark("("), Mark(")")>>,
                                     <<Mark("{"), Mark("}")>>}
        Commas == Cardinality({j \in 2..(n - 1) : iterable[j] = Mark(",")})
    IN IF Range /\ Numbers(1) THEN iterable[3].n
       ELSE IF Range /\ Numbers(2) THEN Max(0, iterable[5].n - iterable[3].n)
       ELSE IF Range /\ Numbers(3)
       THEN (IF iterable[7].n > 0
             THEN Max(0, CeilDiv(iterable[5].n - iterable[3].n, iterable[7].n))
             ELSE DEFAULT_LOOP_ITERATIONS)
       ELSE IF Range /\ n = 4 /\ iterable[3].k = "word"
               /\ iterable[3].s \in UpperWords /\ TableHas(vc, iterable[3].s)
       THEN TableGet(vc, iterable[3].s)
       ELSE IF Literal THEN (IF n = 2 THEN 0 ELSE Commas + 1)
       ELSE DEFAULT_LOOP_ITERATIONS

\* RegexAnalyzer.estimatePythonWhileIterations:
\* /^(\w+)\s*(<|>|<=|>=|!=)\s*(\d+|\w+)$/
RxPythonWhileIterations(condition, vc) ==
    LET Positive(endVal) ==
            IF endVal.ok /\ endVal.v > 0 THEN endVal.v ELSE DEFAULT_LOOP_ITERATIONS
    IN IF Len(condition) = 3 /\ IsName(condition[1])
          /\ condition[2] \in {Mark("<"), Mark(">"), Mark("<="), Mark(">="), Mark("!=")}
          /\ IsName(condition[3])
       THEN Positive(RxEndValue(condition[3], vc))
       ELSE DEFAULT_LOOP_ITERATIONS

\* (\d+|[A-Z_]+) of the brace-language headers
IsBoundToken(tok) == tok.k = "digits" \/ (tok.k = "word" /\ tok.s \in UpperWords)

\* RegexAnalyzer.estimateForIterationsFromHeader: FOR_HEADER_REGEX on
\* `for ( [type] var = start ; name op end ;`, then FOR_SIMPLE_UPPER on
\* `for ( ... ; name < number ;`
RxForIterationsFromHeader(header, vc) ==
    LET v == IF At(header, 3) \in {Word("int"), Word("var"), Word("let"),
                                   Word("const"), Word("auto"), Word("size_t")}
                /\ IsName(At(header, 4))
             THEN 4 ELSE 3
        Standard ==
            /\ At(header, 1) = Word("for") /\ At(header, 2) = Mark("(")
            /\ IsName(At(header, v)) /\ At(header, v + 1) = Mark("=")
            /\ At(header, v + 2).k = "digits" /\ At(header, v + 3) = Mark(";")
            /\ IsName(At(header, v + 4))
            /\ At(header, v + 5) \in {Mark("<"), Mark("<="), Mark(">"), Mark(">=")}
            /\ IsBoundToken(At(header, v + 6)) /\ At(header, v + 7) = Mark(";")
        Estimate(startVal, op, endVal) ==
            IF ~endVal.ok THEN DEFAULT_LOOP_ITERATIONS
            ELSE CASE op = "<" -> Max(0, endVal.v - startVal)
                   [] op = "<=" -> Max(0, endVal.v - startVal + 1)
                   [] op = ">" -> Max(0, startVal - endVal.v)
                   [] op = ">=" -> Max(0, startVal - endVal.v + 1)
        semi == NextOf(header, 3, Mark(";"))
        Simple ==
            /\ At(header, 1) = Word("for") /\ At(header, 2) = Mark("(")
            /\ semi # 0 /\ IsName(At(header, semi + 1))
            /\ At(header, semi + 2) = Mark("<") /\ At(header, semi + 3).k = "digits"
            /\ At(header, semi + 4) = Mark(";")
    IN IF Standard
       THEN Estimate(header[v + 2].n, header[v + 5].s, RxEndValue(header[v + 6], vc))
       ELSE IF Simple THEN header[semi + 3].n
       ELSE DEFAULT_LOOP_ITERATIONS

\* RegexAnalyzer.estimateWhileIterationsFromCondition: WHILE_COND_REGEX on
\* `while ( name op end )`
RxWhileIterationsFromCondition(header, vc) ==
    LET OrDefault(endVal) == IF endVal.ok THEN endVal.v ELSE DEFAULT_LOOP_ITERATIONS
    IN IF At(header, 1) = Word("while") /\ At(header, 2) = Mark("(")
          /\ IsName(At(header, 3))
          /\ At(header, 4) \in {Mark("<"), Mark(">"), Mark("<="), Mark(">="),
                                Mark("!=")}
          /\ IsBoundToken(At(header, 5)) /\ At(header, 6) = Mark(")")
       THEN OrDefault(RxEndValue(header[5], vc))
       ELSE DEFAULT_LOOP_ITERATIONS

----------------
(* regexAnalyzer.ts: counting *)

\* the words IO_PATTERNS, NETWORK_PATTERNS and ALLOC_PATTERNS of the analyzer
\* match (python and c)
RxIoWords(l) ==
    CASE l = "python" -> {"print", "input", "open", "read", "write", "readline",
                          "readlines"}
      [] l = "c" -> {"printf", "scanf", "fprintf", "fscanf", "fopen", "fclose",
                     "fread", "fwrite", "puts", "gets", "getchar", "putchar",
                     "fgets", "fputs"}
      [] OTHER -> {}

RxNetworkWords(l) ==
    CASE l = "python" -> {"request", "urlopen", "socket", "fetch", "connect",
                          "send", "recv"}
      [] l = "c" -> {"socket", "connect", "send", "recv", "bind", "listen",
                     "accept", "curl_"}
      [] OTHER -> {}

RxAllocWords(l) ==
    CASE l = "python" -> {"list", "dict", "set", "tuple", "bytearray", "array",
                          "DataFrame", "Series", "ndarray", "deepcopy", "copy"}
      [] l = "c" -> {"malloc", "calloc", "realloc", "free", "alloca"}
      [] OTHER -> {}

HasWord(toks, words) == \E i \in 1..Len(toks) : toks[i].k = "word" /\ toks[i].s \in words

\* the allocation pattern of python wants the `(` after the word
RxAllocates(l, toks) ==
    IF l = "python"
    THEN \E i \in 1..Len(toks) : /\ toks[i].k = "word" /\ toks[i].s \in RxAllocWords(l)
                                 /\ At(toks, i + 1) = Mark("(")
    ELSE HasWord(toks, RxAllocWords(l))

\* how many characters of an operator match /(?<!=)[+\-*/%](?!=)/ as + or -,
\* as * and as / or %, /(?<![=!<>])=(?!=)/ and /(==|!=|<=|>=|<|>)/
MarkCounts(s) ==
    CASE s \in {"+", "-"} -> [add |-> 1, mul |-> 0, div |-> 0, asg |-> 0, cmp |-> 0]
      [] s \in {"++", "--"} -> [add |-> 2, mul |-> 0, div |-> 0, asg |-> 0, cmp |-> 0]
      [] s = "*" -> [add |-> 0, mul |-> 1, div |-> 0, asg |-> 0, cmp |-> 0]
      [] s \in {"/", "%"} -> [add |-> 0, mul |-> 0, div |-> 1, asg |-> 0, cmp |-> 0]
      [] s \in {"=", "+=", "-=", "*=", "/=", "%="} ->
            [add |-> 0, mul |-> 0, div |-> 0, asg |-> 1, cmp |-> 0]
      [] s \in {"==", "!=", "<=", ">=", "<", ">"} ->
            [add |-> 0, mul |-> 0, div |-> 0, asg |-> 0, cmp |-> 1]
      [] s = "->" -> [add |-> 1, mul |-> 0, div |-> 0, asg |-> 0, cmp |-> 1]
      [] OTHER -> [add |-> 0, mul |-> 0, div |-> 0, asg |-> 0, cmp |-> 0]

RECURSIVE SumMarks(_, _, _)
SumMarks(toks, i, field) ==
    IF i > Len(toks) THEN 0
    ELSE (IF toks[i].k = "mark" THEN MarkCounts(toks[i].s)[field] ELSE 0)
         + SumMarks(toks, i + 1, field)

\* RegexAnalyzer.countLineOperations: what the line adds at the multiplier
RxCountLineOperations(l, toks, multiplier) ==
    LET io == HasWord(toks, RxIoWords(l))
        net == HasWord(toks, RxNetworkWords(l))
        alloc == RxAllocates(l, toks)
        conditional ==
            \/ HasWord(toks, {"if", "else", "switch", "case"})
            \/ \E i \in 1..Len(toks) :
                  toks[i] = Mark("?") /\ i < Len(toks) /\ toks[i + 1] # Mark("?")
        arrays == Cardinality({i \in 1..Len(toks) :
                                  toks[i] = Mark("[") /\ At(toks, i + 1) # Mark("]")})
        call == \E i \in 1..Len(toks) : IsName(toks[i]) /\ At(toks, i + 1) = Mark("(")
        Flag(b) == IF b THEN multiplier ELSE 0
    IN IF Len(toks) = 0
          \/ toks[1] \in {Mark("#"), Word("import"), Word("using")}
       THEN NewOperationCount
       ELSE [op \in OpTypes |->
                CASE op = "io_operation" -> Flag(io)
                  [] op = "network_operation" -> Flag(net)
                  [] op = "memory_allocation" -> Flag(alloc)
                  [] op = "addition" -> multiplier * SumMarks(toks, 1, "add")
                  [] op = "multiplication" -> multiplier * SumMarks(toks, 1, "mul")
                  [] op = "division" -> multiplier * SumMarks(toks, 1, "div")
                  [] op = "assignment" -> multiplier * SumMarks(toks, 1, "asg")
                  [] op = "comparison" -> multiplier * SumMarks(toks, 1, "cmp")
                  [] op = "conditional_branch" -> Flag(conditional)
                  [] op = "array_access" -> multiplier * arrays
                  [] op = "function_call" ->
                        Flag(call /\ ~io /\ ~net /\ ~alloc)
                  [] OTHER -> 0]

\* `Line <line>: <kind> estimated <n> iterations`
LineAssumption(kind, line, n) == [kind |-> kind, n |-> n, line |-> line]

----------------
(* regexAnalyzer.ts: the indentation dialect *)

IsBlank(line) == Len(line.toks) = 0

\* the index after the lines of the block under line i: blank lines and lines
\* indented deeper than `indent`
RECURSIVE BlockEnd(_, _, _)
BlockEnd(lines, j, indent) ==
    IF j > Len(lines) THEN j
    ELSE IF IsBlank(lines[j]) \/ lines[j].indent > indent
    THEN BlockEnd(lines, j + 1, indent)
    ELSE j

\* RegexAnalyzer.analyzePythonBlock
RECURSIVE RxAnalyzePythonBlock(_, _, _, _)
RxAnalyzePythonBlock(lines, i, multiplier, vc) ==
    LET toks == lines[i].toks
        colon == LastOf(toks, Mark(":"))
        end == BlockEnd(lines, i + 1, lines[i].indent)
        Body == SubSeq(lines, i + 1, end - 1)
        Rest == RxAnalyzePythonBlock(lines, end, multiplier, vc)
        Under(m) == RxAnalyzePythonBlock(Body, 1, m, vc)
        LoopOf(kind, iterations) ==
            RMerge([ops |-> Add(NewOperationCount, "comparison",
                                multiplier * iterations),
                    asm |-> <<LineAssumption(kind, i, iterations)>>],
                   RMerge(Under(multiplier * iterations), Rest))
        Next == RxAnalyzePythonBlock(lines, i + 1, multiplier, vc)
    IN IF i > Len(lines) THEN NoOps
       ELSE IF IsBlank(lines[i]) THEN Next
       ELSE IF toks[1] = Word("for") /\ IsName(At(toks, 2))
               /\ At(toks, 3) = Word("in") /\ colon > 4
       THEN LoopOf("for-loop",
                   RxPythonForIterations(SubSeq(toks, 4, colon - 1), vc))
       ELSE IF toks[1] = Word("while") /\ colon > 2
       THEN LoopOf("while-loop",
                   RxPythonWhileIterations(SubSeq(toks, 2, colon - 1), vc))
       ELSE IF toks[1] \in {Word("if"), Word("elif")} /\ colon > 2
       THEN RMerge(Counted(Add(NewOperationCount, "conditional_branch", multiplier)),
                   RMerge(Under(multiplier), Rest))
       ELSE IF toks[1] = Word("else") /\ At(toks, 2) = Mark(":")
       THEN RMerge(Under(multiplier), Rest)
       ELSE RMerge(Counted(RxCountLineOperations("python", toks, multiplier)), Next)

\* RegexAnalyzer.countPythonNesting: every line opening with for or while
\* deepens, nothing shallows
RxCountPythonNesting(lines) ==
    Cardinality({i \in 1..Len(lines) :
                    At(lines[i].toks, 1) \in {Word("for"), Word("while")}})

\* new RegExp(`\\b${funcName}\\s*\\(`).test(code)
RxCalls(code, funcName) ==
    \E i \in 1..Len(code) : code[i] = Word(funcName) /\ At(code, i + 1) = Mark("(")

\* a function analyzed: scaled when recursive, with its assumption
RxFunction(funcName, walked, isRecursive, maxNesting) ==
    [func |-> FunctionAnalysis(<<"", funcName>>,
                               IF isRecursive
                               THEN Scale(walked.ops, DEFAULT_RECURSION_DEPTH)
                               ELSE walked.ops,
                               isRecursive, maxNesting),
     asm |-> walked.asm \o
             (IF isRecursive
              THEN <<Assumption("recursive", DEFAULT_RECURSION_DEPTH, funcName)>>
              ELSE <<>>)]

\* /^(\s*)(?:async\s+)?def\s+(\w+)\s*\(/ : the index of the name, 0 for no match
DefName(toks) ==
    IF At(toks, 1) = Word("def") /\ IsName(At(toks, 2)) /\ At(toks, 3) = Mark("(")
    THEN 2
    ELSE IF At(toks, 1) = Word("async") /\ At(toks, 2) = Word("def")
            /\ IsName(At(toks, 3)) /\ At(toks, 4) = Mark("(")
    THEN 3
    ELSE 0

\* RegexAnalyzer.extractPythonFunctions: the functions, their assumptions and
\* the lines left to the global code
RECURSIVE RxExtractPythonFunctions(_, _, _)
RxExtractPythonFunctions(lines, i, vc) ==
    LET name == DefName(lines[i].toks)
        end == BlockEnd(lines, i + 1, lines[i].indent)
        Body == SubSeq(lines, i + 1, end - 1)
        Here == RxFunction(lines[i].toks[name].s,
                           RxAnalyzePythonBlock(Body, 1, 1, vc),
                           RxCalls(JoinLines(Body), lines[i].toks[name].s),
                           RxCountPythonNesting(Body))
        After(rest) == [funcs |-> <<Here.func>> \o rest.funcs,
                        asm |-> Here.asm \o rest.asm,
                        globalLines |-> rest.globalLines]
        Skip(rest) == [funcs |-> rest.funcs, asm |-> rest.asm,
                       globalLines |-> <<lines[i]>> \o rest.globalLines]
    IN IF i > Len(lines) THEN [funcs |-> <<>>, asm |-> <<>>, globalLines |-> <<>>]
       ELSE IF name # 0 THEN After(RxExtractPythonFunctions(lines, end, vc))
       ELSE Skip(RxExtractPythonFunctions(lines, i + 1, vc))

----------------
(* regexAnalyzer.ts: the brace dialects *)

\* the product of the iterations on the loop stack
RECURSIVE StackProduct(_)
StackProduct(loopStack) ==
    IF Len(loopStack) = 0 THEN 1
    ELSE Head(loopStack).iterations * StackProduct(Tail(loopStack))

\* while (loopStack.length > 0 && braceDepth < top.braceDepth) loopStack.pop()
RECURSIVE PopLoops(_, _)
PopLoops(loopStack, braceDepth) ==
    IF Len(loopStack) > 0 /\ braceDepth < loopStack[Len(loopStack)].braceDepth
    THEN PopLoops(SubSeq(loopStack, 1, Len(loopStack) - 1), braceDepth)
    ELSE loopStack

\* the braces of a line, character by character
RECURSIVE CountBraces(_, _, _, _)
CountBraces(toks, j, loopStack, braceDepth) ==
    IF j > Len(toks) THEN [loopStack |-> loopStack, braceDepth |-> braceDepth]
    ELSE IF toks[j] = Mark("{")
    THEN CountBraces(toks, j + 1, loopStack, braceDepth + 1)
    ELSE IF toks[j] = Mark("}")
    THEN CountBraces(toks, j + 1, PopLoops(loopStack, braceDepth - 1), braceDepth - 1)
    ELSE CountBraces(toks, j + 1, loopStack, braceDepth)

\* /^for\s*\(\s*(?:const|let|var|auto|final)?\s*(?:\w+\s+)?(\w+)\s*(?:of|in|:)/
\* on a line whose names hold neither `of` nor `in` inside them
IsForEach(toks) ==
    LET Ends(tok) == tok \in {Word("of"), Word("in"), Mark(":")}
        Keyword == At(toks, 3) \in {Word("const"), Word("let"), Word("var"),
                                    Word("auto"), Word("final")}
    IN /\ At(toks, 1) = Word("for") /\ At(toks, 2) = Mark("(")
       /\ IsName(At(toks, 3))
       /\ \/ Ends(At(toks, 4))
          \/ IsName(At(toks, 4)) /\ Ends(At(toks, 5))
          \/ Keyword /\ IsName(At(toks, 4)) /\ IsName(At(toks, 5))
             /\ Ends(At(toks, 6))

\* the kind of loop a trimmed line opens, "" for a regular line
LoopKind(toks) ==
    IF At(toks, 1) = Word("for") /\ At(toks, 2) = Mark("(") /\ ~IsForEach(toks)
    THEN "for-loop"
    ELSE IF IsForEach(toks) THEN "for-each"
    ELSE IF At(toks, 1) = Word("while") /\ At(toks, 2) = Mark("(") THEN "while-loop"
    ELSE IF At(toks, 1) = Word("do") THEN "do-while"
    ELSE ""

\* RegexAnalyzer.analyzeCodeByDepth, from line i on
RECURSIVE RxDepthLines(_, _, _, _, _, _, _)
RxDepthLines(l, lines, i, loopStack, braceDepth, baseMultiplier, vc) ==
    LET line == lines[i]
        after == CountBraces(line, 1, loopStack, braceDepth)
        currentMultiplier == baseMultiplier * StackProduct(after.loopStack)
        kind == LoopKind(line)
        iterations ==
            CASE kind = "for-loop" -> RxForIterationsFromHeader(line, vc)
              [] kind = "while-loop" -> RxWhileIterationsFromCondition(line, vc)
              [] OTHER -> DEFAULT_LOOP_ITERATIONS
        Opened ==
            [ops |-> Add(NewOperationCount, "comparison",
                         currentMultiplier * iterations),
             asm |-> <<LineAssumption(kind, i, iterations)>>]
        Pushed == Append(after.loopStack,
                         [iterations |-> iterations, braceDepth |-> after.braceDepth])
    IN IF i > Len(lines) THEN NoOps
       ELSE IF Len(line) = 0
       THEN RxDepthLines(l, lines, i + 1, loopStack, braceDepth, baseMultiplier, vc)
       ELSE IF kind # ""
       THEN RMerge(Opened,
                   RxDepthLines(l, lines, i + 1, Pushed, after.braceDepth,
                                baseMultiplier, vc))
       ELSE RMerge(Counted(RxCountLineOperations(l, line, currentMultiplier)),
                   RxDepthLines(l, lines, i + 1, after.loopStack, after.braceDepth,
                                baseMultiplier, vc))

RxAnalyzeCodeByDepth(l, code, baseMultiplier, vc) ==
    RxDepthLines(l, SplitLines(code), 1, <<>>, 0, baseMultiplier, vc)

\* RegexAnalyzer.extractBraceBlock: the index of the brace that closes the one
\* at startIdx, one past the end when none does
RECURSIVE ClosingBrace(_, _, _)
ClosingBrace(code, i, depth) ==
    IF i > Len(code) THEN i
    ELSE IF code[i] = Mark("{") THEN ClosingBrace(code, i + 1, depth + 1)
    ELSE IF code[i] = Mark("}")
    THEN (IF depth = 1 THEN i ELSE ClosingBrace(code, i + 1, depth - 1))
    ELSE ClosingBrace(code, i + 1, depth)

RxExtractBraceBlock(code, startIdx) ==
    SubSeq(code, startIdx + 1, ClosingBrace(code, startIdx, 0) - 1)

\* RegexAnalyzer.countBraceNesting: every for, while and do deepens
RxCountBraceNesting(code) ==
    Cardinality({i \in 1..Len(code) :
                    code[i] \in {Word("for"), Word("while"), Word("do")}})

\* the first index from i on that is not a line break
RECURSIVE SkipBreaks(_, _)
SkipBreaks(code, i) ==
    IF i <= Len(code) /\ code[i] = Newline THEN SkipBreaks(code, i + 1) ELSE i

\* FUNC_PATTERNS.c at index i, without its optional qualifiers:
\* \w+[\s*]+(\w+)\s*\([^)]*\)\s*\{ ; the index of the brace, 0 for no match
FuncPatternAt(code, i) ==
    LET name == SkipBreaks(code, i + 1)
        paren == SkipBreaks(code, name + 1)
        close == NextOf(code, paren + 1, Mark(")"))
        brace == SkipBreaks(code, close + 1)
    IN IF /\ IsName(At(code, i)) /\ At(code, name).k = "word"
          /\ At(code, paren) = Mark("(") /\ close # 0
          /\ At(code, brace) = Mark("{")
       THEN brace ELSE 0

\* the matches of patternGlobal.exec, left to right
RECURSIVE FuncMatches(_, _)
FuncMatches(code, i) ==
    IF i > Len(code) THEN <<>>
    ELSE IF FuncPatternAt(code, i) # 0
    THEN <<[name |-> code[SkipBreaks(code, i + 1)].s, index |-> i]>>
         \o FuncMatches(code, FuncPatternAt(code, i) + 1)
    ELSE FuncMatches(code, i + 1)

\* RegexAnalyzer.extractBraceFunctions: the loop over the matches and the
\* remaining global code
RECURSIVE RxBraceFunctionsFrom(_, _, _, _, _, _)
RxBraceFunctionsFrom(l, code, allMatches, k, lastEnd, vc) ==
    LET fm == allMatches[k]
        globalChunk ==
            IF fm.index > lastEnd
            THEN RxAnalyzeCodeByDepth(l, SubSeq(code, lastEnd, fm.index - 1), 1, vc)
            ELSE NoOps
        openBrace == NextOf(code, fm.index, Mark("{"))
        funcBody == RxExtractBraceBlock(code, openBrace)
        Here == RxFunction(fm.name, RxAnalyzeCodeByDepth(l, funcBody, 1, vc),
                           RxCalls(funcBody, fm.name), RxCountBraceNesting(funcBody))
        After(rest) == [funcs |-> <<Here.func>> \o rest.funcs,
                        asm |-> globalChunk.asm \o Here.asm \o rest.asm,
                        ops |-> Merge(globalChunk.ops, rest.ops)]
        Remaining == IF lastEnd <= Len(code)
                     THEN RxAnalyzeCodeByDepth(l, SubSeq(code, lastEnd, Len(code)), 1, vc)
                     ELSE NoOps
    IN IF k > Len(allMatches)
       THEN [funcs |-> <<>>, asm |-> Remaining.asm, ops |-> Remaining.ops]
       ELSE After(RxBraceFunctionsFrom(l, code, allMatches, k + 1,
                                       openBrace + Len(funcBody) + 2, vc))

\* RegexAnalyzer.analyze: the result for a text of the language
RxAnalyze(language, text) ==
    LET clean == RemoveComments(text)
        code == JoinLines(clean)
        Python(vc, ex) ==
            [walk |-> ex, global |-> RxAnalyzePythonBlock(ex.globalLines, 1, 1, vc)]
        PyResult(run) ==
            [language |-> language,
             functions |-> run.walk.funcs,
             globalOperations |-> run.global.ops,
             assumptions |-> RegexHeader(language) \o run.walk.asm \o run.global.asm]
        BraceResult(run) ==
            [language |-> language,
             functions |-> run.funcs,
             globalOperations |-> run.ops,
             assumptions |-> RegexHeader(language) \o run.asm]
    IN IF language = "python"
       THEN PyResult(Python(RxPyConstants(clean, 1, {}),
                            RxExtractPythonFunctions(clean, 1,
                                                     RxPyConstants(clean, 1, {}))))
       ELSE BraceResult(RxBraceFunctionsFrom(language, code, FuncMatches(code, 1), 1,
                                             1, RxBraceConstants(code, 1, {})))

----------------------------------------------------------------------------
(* The scenario sources: each text with the tree the parser of its dialect *)
(* returns for it                                                          *)

\* the numbers of the scenario sources as written
Written == [S1 |-> <<10>>, S2 |-> <<50>>, S3 |-> <<4, 5>>, S4 |-> <<3>>]

\* `name ( args )` as tokens
CallTokens(name, args) == <<Word(name), Mark("(")>> \o args \o <<Mark(")")>>

\* `for target in range ( bound ) :`
RangeLine(indent, target, bound) ==
    TextLine(indent, <<Word("for"), Word(target), Word("in")>>
                     \o CallTokens("range", <<bound>>) \o <<Mark(":")>>)

DefLine(name) == TextLine(0, <<Word("def")>> \o CallTokens(name, <<>>) \o <<Mark(":")>>)

EmptyLine == TextLine(0, <<>>)

\* an empty line after the first line of the text, or none
Spaced(blank, lines) ==
    IF blank THEN <<Head(lines), EmptyLine>> \o Tail(lines) ELSE lines

PyName(name) == Leaf("identifier", name, 0)

PyStmt(expr) == Plain("expression_statement", <<expr>>)

\* S1: def f(): for i in range(n): print(i)
S1(n, blank) ==
    [name |-> "S1", numbers |-> <<n>>, lang |-> "python", function |-> "f",
     text |-> Spaced(blank,
                <<DefLine("f"),
                  RangeLine(4, "i", Digits(n)),
                  TextLine(8, CallTokens("print", <<Word("i")>>))>>),
     root |-> Plain("module",
                <<PyDef("f", <<PyFor("i", PyCall("range", <<PyInt(n)>>),
                                     <<PyStmt(PyCall("print", <<PyName("i")>>))>>)>>)>>)]

\* S2: N = n / def g(): for i in range(N): x = i + 1
S2(n, blank) ==
    [name |-> "S2", numbers |-> <<n>>, lang |-> "python", function |-> "g",
     text |-> Spaced(blank,
                <<TextLine(0, <<Word("N"), Mark("="), Digits(n)>>),
                  DefLine("g"),
                  RangeLine(4, "i", Word("N")),
                  TextLine(8, <<Word("x"), Mark("="), Word("i"), Mark("+"),
                                Digits(1)>>)>>),
     root |-> Plain("module",
                <<PyAssign("N", PyInt(n)),
                  PyDef("g", <<PyFor("i", PyCall("range", <<PyName("N")>>),
                                     <<PyAssign("x",
                                          Node("binary_operator", "+", 0,
                                               <<"left", "right">>,
                                               <<PyName("i"), PyInt(1)>>))>>)>>)>>)]

\* S3: def h(): for i in range(a): for j in range(b): print(j)
S3(a, b, blank) ==
    [name |-> "S3", numbers |-> <<a, b>>, lang |-> "python", function |-> "h",
     text |-> Spaced(blank,
                <<DefLine("h"),
                  RangeLine(4, "i", Digits(a)),
                  RangeLine(8, "j", Digits(b)),
                  TextLine(12, CallTokens("print", <<Word("j")>>))>>),
     root |-> Plain("module",
                <<PyDef("h",
                    <<PyFor("i", PyCall("range", <<PyInt(a)>>),
                        <<PyFor("j", PyCall("range", <<PyInt(b)>>),
                            <<PyStmt(PyCall("print", <<PyName("j")>>))>>)>>)>>)>>)]

\* `for ( int i = 0 ; i < n ; i ++ ) {`
ForHeader(n) ==
    <<Word("for"), Mark("("), Word("int"), Word("i"), Mark("="), Digits(0), Mark(";"),
      Word("i"), Mark("<"), Digits(n), Mark(";"), Word("i"), Mark("++"), Mark(")"),
      Mark("{")>>

PrintfTokens == CallTokens("printf", <<Quoted>>) \o <<Mark(";")>>

\* S4: int main() { for (int i = 0; i < n; i++) { printf("x"); } return 0; }
\* with the loop on one line as written, or with its body on a line of its own
S4(n, oneLine, blank) ==
    [name |-> "S4", numbers |-> <<n>>, lang |-> "c", function |-> "main",
     oneLine |-> oneLine,
     text |-> Spaced(blank,
                <<TextLine(0, <<Word("int")>> \o CallTokens("main", <<>>)
                              \o <<Mark("{")>>)>>
                \o (IF oneLine
                    THEN <<TextLine(4, ForHeader(n) \o PrintfTokens \o <<Mark("}")>>)>>
                    ELSE <<TextLine(4, ForHeader(n)),
                           TextLine(8, PrintfTokens),
                           TextLine(4, <<Mark("}")>>)>>)
                \o <<TextLine(4, <<Word("return"), Digits(0), Mark(";")>>),
                     TextLine(0, <<Mark("}")>>)>>),
     root |-> Plain("translation_unit",
                <<CDef("main",
                    <<CFor("i", CInt(n),
                           Plain("compound_statement",
                                 <<Plain("expression_statement",
                                         <<CCall("printf",
                                                 <<Leaf("string_literal", "", 1)>>)>>)>>)),
                      Plain("return_statement", <<CInt(0)>>)>>)>>)]

\* loop bounds drawn besides the written ones
Bounds == 1..LoopBound

Sources ==
    UNION {{S1(n, blank) : n \in Bounds \cup {Written.S1[1]}}
           \cup {S2(n, blank) : n \in Bounds \cup {Written.S2[1]}}
           \cup {S3(a, b, blank) : a \in Bounds, b \in Bounds}
           \cup {S3(Written.S3[1], Written.S3[2], blank)}
           \cup {S4(n, oneLine, blank) : n \in Bounds \cup {Written.S4[1]},
                                          oneLine \in BOOLEAN}
        : blank \in BOOLEAN}

\* the source is one of S1..S4 as the scenarios give it
AsWritten(source) ==
    /\ source.numbers = Written[source.name]
    /\ source.text[2] # EmptyLine
    /\ source.name = "S4" => source.oneLine

----------------------------------------------------------------------------
(* Both walkers on one source *)

NoResult == [language |-> "", functions |-> <<>>,
             globalOperations |-> NewOperationCount, assumptions |-> <<>>]

\* new RegexAnalyzer(language).analyze(code): the result is kept in `observed`
AnalyzeByRegex ==
    /\ pc \in {"source", "ast"}
    /\ observed' = RxAnalyze(lang, request.text)
    /\ pc' = IF pc = "source" THEN "regex" ELSE "both"
    /\ UNCHANGED <<lang, root, idx, functions, globalOperations, assumptions,
                   variableConstants, request>>
    /\ UNCHANGED registry

\* analyze(rootNode) of the walker of the dialect: the result is kept in the
\* walker's own variables
AnalyzeByTree ==
    /\ pc \in {"source", "regex"}
    /\ LET run == Analyze(lang, root, variableConstants)
       IN /\ functions' = run.result.functions
          /\ globalOperations' = run.result.globalOperations
          /\ assumptions' = run.result.assumptions
          /\ variableConstants' = run.table
    /\ pc' = IF pc = "source" THEN "ast" ELSE "both"
    /\ UNCHANGED <<lang, root, idx, observed, request>>
    /\ UNCHANGED registry

InitParity ==
    /\ request \in Sources
    /\ lang = request.lang
    /\ root = request.root
    /\ pc = "source"
    /\ idx = 0
    /\ functions = <<>>
    /\ globalOperations = NewOperationCount
    /\ assumptions = <<>>
    /\ variableConstants = {}
    /\ observed = NoResult
    /\ RegistryAtLoad

NextParity == AnalyzeByRegex \/ AnalyzeByTree

SpecParity == InitParity /\ [][NextParity]_vars

----------------------------------------------------------------------------
(* Properties of the two walkers on the scenario sources *)

Names(funcs) == [i \in 1..Len(funcs) |-> funcs[i].name]

\* the comparison count the scenario expects at least
ComparisonBound(source) ==
    IF source.name = "S3"
    THEN source.numbers[1] + source.numbers[1] * source.numbers[2]
    ELSE source.numbers[1]

\* the single-loop counts of the fallback result and of the walker's agree
CountsAgree(source, fallback, parsed) ==
    /\ Names(fallback) = Names(parsed)
    /\ Len(parsed) = 1
    /\ fallback[1].operations["io_operation"] = parsed[1].operations["io_operation"]
    /\ fallback[1].maxNesting = parsed[1].maxNesting
    /\ fallback[1].operations["comparison"] >= ComparisonBound(source)
    /\ parsed[1].operations["comparison"] >= ComparisonBound(source)

\* C17: on each of S1..S4 as written the fallback walker and the walker of the
\* dialect return the same function list, the same io_operation count and the
\* same max_loop_nesting, and both comparison counts meet the scenario's lower
\* bound; for S4 the fallback returns io_operation = 3, comparison >= 3 and
\* max_loop_nesting = 1
FallbackParity ==
    (pc = "both" /\ AsWritten(request)) =>
        /\ CountsAgree(request, observed.functions, functions)
        /\ request.name = "S4" =>
              /\ observed.functions[1].operations["io_operation"] = 3
              /\ observed.functions[1].operations["comparison"] >= 3
              /\ observed.functions[1].maxNesting = 1

----------------------------------------------------------------------------
(* Definitions nested in statements: the inputs and the walk over them *)

NestDialects == {"python", "c", "javascript", "java"}

\* the block node of a dialect
BlockOf(l, stmts) ==
    Plain(CASE l = "python" -> "block"
            [] l = "c" -> "compound_statement"
            [] l = "javascript" -> "statement_block"
            [] OTHER -> "block",
          stmts)

\* a statement of the dialect: `x = i + 1` or `g()`
Sibling(l, k) == LeafStmt(IF l = "python" THEN "python" ELSE "c", k)

\* javascript: function name() { body }, function* name() { body }; java:
\* void name() { body }
NamedDef(l, kind, name, body) ==
    Node(kind, "", 0, <<"name", "parameters", "body">>,
         <<Leaf("identifier", name, 0), Plain("formal_parameters", <<>>),
           BlockOf(l, body)>>)

\* class name { members }
ClassNode(kind, name, bodyType, members) ==
    Node(kind, "", 0, <<"name", "body">>,
         <<Leaf("identifier", name, 0), Plain(bodyType, members)>>)

\* the function a statement is nested in
Enclosing(l, body) ==
    CASE l = "python" -> <<PyDef("f", body)>>
      [] l = "c" -> <<CDef("f", body)>>
      [] l = "javascript" -> <<NamedDef(l, "function_declaration", "f", body)>>
      [] OTHER -> <<ClassNode("class_declaration", "C", "class_body",
                              <<NamedDef(l, "method_declaration", "f", body)>>)>>

\* the definition kinds each grammar nests in a statement list
NestedKinds(l) ==
    CASE l = "python" -> {"function_definition", "class_definition",
                          "decorated_definition"}
      [] l = "c" -> {"function_definition", "struct_specifier"}
      [] l = "javascript" -> {"function_declaration", "generator_function_declaration",
                              "class_declaration", "arrow_function"}
      [] OTHER -> {"class_declaration"}

\* the nested definition of the kind, its body holding the statement `stmt`
NestedDefinition(l, kind, stmt) ==
    CASE l = "python" /\ kind = "function_definition" -> PyDef("g", <<stmt>>)
      [] l = "python" /\ kind = "class_definition" ->
            ClassNode(kind, "K", "block", <<PyDef("g", <<stmt>>)>>)
      [] l = "python" /\ kind = "decorated_definition" ->
            Plain(kind, <<Plain("decorator", <<Leaf("identifier", "h", 0)>>),
                          PyDef("g", <<stmt>>)>>)
      [] l = "c" /\ kind = "function_definition" -> CDef("g", <<stmt>>)
      [] l = "c" /\ kind = "struct_specifier" ->
            ClassNode(kind, "K", "field_declaration_list",
                      <<Node("field_declaration", "", 0, <<"type", "declarator">>,
                             <<Leaf("primitive_type", "int", 0),
                               Leaf("field_identifier", "x", 0)>>)>>)
      [] l = "javascript" /\ kind = "class_declaration" ->
            ClassNode(kind, "K", "class_body",
                      <<NamedDef(l, "method_definition", "g", <<stmt>>)>>)
      [] l = "javascript" /\ kind = "arrow_function" ->
            Plain("lexical_declaration",
                  <<Node("variable_declarator", "", 0, <<"name", "value">>,
                         <<Leaf("identifier", "g", 0),
                           Node(kind, "", 0, <<"parameters", "body">>,
                                <<Plain("formal_parameters", <<>>),
                                  BlockOf(l, <<stmt>>)>>)>>)>>)
      [] l = "java" ->
            ClassNode(kind, "K", "class_body",
                      <<NamedDef(l, "method_declaration", "g", <<stmt>>)>>)
      [] OTHER -> NamedDef(l, kind, "g", <<stmt>>)

\* the statements under no statement, under a branch or under a loop
Wrapped(l, wrapper, stmts) ==
    LET Test(bound) ==
            IF l = "python" THEN PyCompare("<", Leaf("identifier", "j", 0), PyInt(bound))
            ELSE Plain("parenthesized_expression",
                       <<CBinary("<", Leaf("identifier", "j", 0), CInt(bound))>>)
    IN CASE wrapper = "if" ->
              <<Node("if_statement", "", 0, <<"condition", "consequence">>,
                     <<Test(1), BlockOf(l, stmts)>>)>>
         [] wrapper = "while" ->
              <<Node("while_statement", "", 0, <<"condition", "body">>,
                     <<Test(LoopBound), BlockOf(l, stmts)>>)>>
         [] OTHER -> stmts

\* where the statement list stands: in the function f or at the top level
Placed(l, place, stmts) ==
    Plain(RootType(l), IF place = "function" THEN Enclosing(l, stmts) ELSE stmts)

Places(l, wrapper) ==
    IF l \in {"python", "javascript"} /\ wrapper # "none"
    THEN {"function", "global"} ELSE {"function"}

\* a program with a nested definition after a statement, and the same program
\* without the definition
NestedProgram(l, kind, k, wrapper, place) ==
    [lang |-> l, kind |-> kind,
     root |-> Placed(l, place,
                     Wrapped(l, wrapper,
                             <<Sibling(l, k),
                               NestedDefinition(l, kind, Sibling(l, k))>>)),
     bare |-> Placed(l, place, Wrapped(l, wrapper, <<Sibling(l, k)>>))]

NestedPrograms ==
    UNION {{NestedProgram(l, kind, k, wrapper, place) :
                kind \in NestedKinds(l), k \in {"call", "assign"},
                place \in Places(l, wrapper)}
           : l \in NestDialects, wrapper \in {"none", "if", "while"}}

\* analyze(rootNode) on a program with a nested definition
AnalyzeNested ==
    /\ pc = "nested"
    /\ LET run == Analyze(lang, root, variableConstants)
       IN /\ functions' = run.result.functions
          /\ globalOperations' = run.result.globalOperations
          /\ assumptions' = run.result.assumptions
          /\ variableConstants' = run.table
    /\ pc' = "walked"
    /\ UNCHANGED <<lang, root, idx, observed, request>>
    /\ UNCHANGED registry

InitNested ==
    /\ request \in NestedPrograms
    /\ lang = request.lang
    /\ root = request.root
    /\ pc = "nested"
    /\ idx = 0
    /\ functions = <<>>
    /\ globalOperations = NewOperationCount
    /\ assumptions = <<>>
    /\ variableConstants = {}
    /\ observed = NoResult
    /\ RegistryAtLoad

NextNested == AnalyzeNested

SpecNested == InitNested /\ [][NextNested]_vars

----------------------------------------------------------------------------
(* Properties of nested definitions *)

\* the counters of the same program without the nested definition
Bare == Analyze(lang, request.bare, {}).result

\* C20: in both AST walkers a function or class definition of any recognized
\* definition kind nested inside a function body, a loop, a branch or another
\* statement adds no operation counts to the enclosing function's counter or to
\* the global counter, at any multiplier.
NestedDefinitionsUncounted ==
    pc = "walked" =>
        /\ globalOperations = Bare.globalOperations
        /\ Len(functions) = Len(Bare.functions)
        /\ \A i \in 1..Len(functions) :
              functions[i].operations = Bare.functions[i].operations

----------------------------------------------------------------------------
(* Statements of a kind the walkers have no case for *)

\* the constructs drawn for each grammar: a node kind outside the cases of
\* analyzeNode, holding the statements `stmts`
UnknownKinds(l) ==
    CASE l = "python" -> {"match_statement", "ERROR"}
      [] l = "c" -> {"compound_statement", "ERROR"}
      [] l = "cpp" -> {"for_range_loop"}
      [] l = "java" -> {"synchronized_statement"}
      [] OTHER -> {"with_statement"}

UnknownDialects == {"python", "c", "cpp", "java", "javascript"}

UnknownConstruct(l, kind, stmts) ==
    CASE kind = "match_statement" ->
            \* match x: case 1: <stmts>
            Node(kind, "", 0, <<"subject", "body">>,
                 <<Leaf("identifier", "x", 0),
                   Plain("block",
                         <<Node("case_clause", "", 0, <<"", "consequence">>,
                                <<Plain("case_pattern", <<PyInt(1)>>),
                                  Plain("block", stmts)>>)>>)>>)
      [] kind = "ERROR" -> Plain(kind, stmts)
      [] kind = "compound_statement" -> Plain(kind, stmts)
      [] kind = "for_range_loop" ->
            \* for (int x : N) { <stmts> }
            Node(kind, "", 0, <<"type", "declarator", "right", "body">>,
                 <<Leaf("primitive_type", "int", 0), Leaf("identifier", "x", 0),
                   Leaf("identifier", "N", 0), Plain("compound_statement", stmts)>>)
      [] kind = "synchronized_statement" ->
            \* synchronized (x) { <stmts> }
            Node(kind, "", 0, <<"", "body">>,
                 <<Plain("parenthesized_expression", <<Leaf("identifier", "x", 0)>>),
                   Plain("block", stmts)>>)
      [] OTHER ->
            \* with (x) { <stmts> }
            Node(kind, "", 0, <<"object", "body">>,
                 <<Plain("parenthesized_expression", <<Leaf("identifier", "x", 0)>>),
                   Plain("statement_block", stmts)>>)

\* the statements put under the construct: a leaf statement or a loop around one
UnknownBodies(l) ==
    LET d == IF l = "python" THEN "python" ELSE "c"
    IN {<<LeafStmt(d, k)>> : k \in LeafKinds}
       \cup {<<Loop(d, IF d = "python" THEN "rangeK" ELSE "forK", LeafStmt(d, "io"))>>}

UnknownInputs ==
    UNION {{[lang |-> l, kind |-> kind, nested |-> stmts,
             root |-> UnknownConstruct(l, kind, stmts)] :
                kind \in UnknownKinds(l), stmts \in UnknownBodies(l)}
           : l \in UnknownDialects}

\* analyzeNode of the walker for language l
AnalyzeNode(l, node, loopMultiplier, vc) ==
    IF l = "python" THEN PyAnalyzeNode(node, loopMultiplier, vc)
    ELSE CAnalyzeNode(l, node, loopMultiplier, vc)

AnalyzeNodes(l, stmts, loopMultiplier, vc) ==
    IF l = "python" THEN PyAnalyzeNodes(stmts, 1, loopMultiplier, vc)
    ELSE CAnalyzeNodes(l, stmts, 1, loopMultiplier, vc)

\* analyzeNode(node, loopMultiplier) on the construct, reached at multiplier idx
AnalyzeUnknown ==
    /\ pc = "unknown"
    /\ LET walk == AnalyzeNode(lang, root, idx, variableConstants)
       IN /\ globalOperations' = walk.ops
          /\ assumptions' = walk.asm
    /\ pc' = "walked"
    /\ UNCHANGED <<lang, root, idx, functions, variableConstants, observed, request>>
    /\ UNCHANGED registry

InitUnknown ==
    /\ request \in UnknownInputs
    /\ lang = request.lang
    /\ root = request.root
    /\ pc = "unknown"
    /\ idx \in 1..MaxMultiplier
    /\ functions = <<>>
    /\ globalOperations = NewOperationCount
    /\ assumptions = <<>>
    /\ variableConstants = {}
    /\ observed = NoResult
    /\ RegistryAtLoad

NextUnknown == AnalyzeUnknown

SpecUnknown == InitUnknown /\ [][NextUnknown]_vars

----------------------------------------------------------------------------
(* Properties of the default case *)

\* C21: in both AST walkers a statement node whose kind has no dedicated case
\* raises no error and all of its named children are walked at the current
\* multiplier, so that the operations nested under the construct are counted
\* as they are without it.
DefaultWalksChildren ==
    pc = "walked" =>
        /\ globalOperations = AnalyzeNodes(lang, root.kids, idx, variableConstants).ops
        /\ globalOperations = AnalyzeNodes(lang, request.nested, idx,
                                           variableConstants).ops

----------------------------------------------------------------------------
(* while loops on their own: the estimators of both walkers on one header *)

WhileOps == {"<", "<=", ">", ">=", "!="}

\* the left and right operands of the condition
WhileLefts == {"low", "j"}

WhileRights == {"high", "N", "literal"}

\* the constant tables the estimators run with
WhileTables == {{}, {<<"N", 2>>}, {<<"low", 1>>}, {<<"low", 1>>, <<"N", 2>>}}

WhileHeaders ==
    {[op |-> op, left |-> left, right |-> right, table |-> vc] :
        op \in WhileOps, left \in WhileLefts, right \in WhileRights,
        vc \in WhileTables}

\* python: while left op right: g()
PyWhileOf(h) ==
    PyWhile(PyCompare(h.op, Leaf("identifier", h.left, 0),
                      IF h.right = "literal" THEN PyInt(LoopBound)
                      ELSE Leaf("identifier", h.right, 0)),
            <<LeafStmt("python", "call")>>)

\* c: while (left op right) { g(); }
CWhileOf(h) ==
    CWhile(CBinary(h.op, Leaf("identifier", h.left, 0),
                   IF h.right = "literal" THEN CInt(LoopBound)
                   ELSE Leaf("identifier", h.right, 0)),
           Plain("compound_statement", <<LeafStmt("c", "call")>>))

NoEstimate == [python |-> 0, brace |-> 0]

\* estimateWhileIterations of both walkers on the header of the request
EstimateWhile ==
    /\ pc = "while"
    /\ observed' =
          [python |-> PyEstimateWhileIterations(
                          ChildForFieldName(PyWhileOf(request), "condition"),
                          PyWhileOf(request), variableConstants),
           brace |-> CEstimateWhileIterations(CWhileOf(request), variableConstants)]
    /\ pc' = "estimated"
    /\ UNCHANGED <<lang, root, idx, functions, globalOperations, assumptions,
                   variableConstants, request>>
    /\ UNCHANGED registry

InitWhile ==
    /\ request \in WhileHeaders
    /\ lang = "c"
    /\ root = CWhileOf(request)
    /\ pc = "while"
    /\ idx = 0
    /\ functions = <<>>
    /\ globalOperations = NewOperationCount
    /\ assumptions = <<>>
    /\ variableConstants = request.table
    /\ observed = NoEstimate
    /\ RegistryAtLoad

NextWhile == EstimateWhile

SpecWhile == InitWhile /\ [][NextWhile]_vars

----------------------------------------------------------------------------
(* Properties of the while estimators *)

\* the right operand resolves to no constant
RightUnresolved ==
    request.right # "literal" /\ ~TableHas(variableConstants, request.right)

\* C22: in the brace walker a `while (low <= high)` loop whose right-hand side
\* does not resolve to a constant is estimated at 20 iterations, the same value
\* the indentation walker gives for `while low <= high:`.
BinarySearchHeuristic ==
    (pc = "estimated" /\ request.op = "<=" /\ RightUnresolved)
        => observed.brace = 20 /\ observed.python = 20

----------------------------------------------------------------------------
(* for loops of the brace walker on their own *)

ForOps == {"<", "<=", ">", ">="}

\* an operand of the header: a literal, the name N (bound in some tables) or
\* the name M (bound in none)
Operands == {"literal", "N", "M"}

ForUpdates == {"++", "+=literal", "+=M"}

ForTables == {{}, {<<"N", 2>>}}

\* the step the headers advance by when it is written as a literal
StepLiteral == [step |-> 2]

ForHeaders ==
    {[start |-> start, op |-> op, end |-> end, update |-> update, table |-> vc] :
        start \in Operands, op \in ForOps, end \in Operands,
        update \in ForUpdates, vc \in ForTables}

OperandNode(operand, literal) ==
    IF operand = "literal" THEN CInt(literal) ELSE Leaf("identifier", operand, 0)

\* for (int i = start; i op end; update) { g(); }
CForOf(h) ==
    Node("for_statement", "", 0, <<"initializer", "condition", "update", "body">>,
         <<CDecl("i", OperandNode(h.start, 1)),
           CBinary(h.op, Leaf("identifier", "i", 0), OperandNode(h.end, LoopBound)),
           IF h.update = "++"
           THEN Node("update_expression", "++", 0, <<"argument">>,
                     <<Leaf("identifier", "i", 0)>>)
           ELSE Node("augmented_assignment_expression", "+=", 0, <<"left", "right">>,
                     <<Leaf("identifier", "i", 0),
                       IF h.update = "+=literal" THEN CInt(StepLiteral.step)
                       ELSE Leaf("identifier", "M", 0)>>),
           Plain("compound_statement", <<LeafStmt("c", "call")>>)>>)

\* estimateForIterations on the header of the request
EstimateFor ==
    /\ pc = "for"
    /\ observed' = [iterations |-> CEstimateForIterations(root, variableConstants)]
    /\ pc' = "estimated"
    /\ UNCHANGED <<lang, root, idx, functions, globalOperations, assumptions,
                   variableConstants, request>>
    /\ UNCHANGED registry

InitFor ==
    /\ request \in ForHeaders
    /\ lang = "c"
    /\ root = CForOf(request)
    /\ pc = "for"
    /\ idx = 0
    /\ functions = <<>>
    /\ globalOperations = NewOperationCount
    /\ assumptions = <<>>
    /\ variableConstants = request.table
    /\ observed = [iterations |-> 0]
    /\ RegistryAtLoad

NextFor == EstimateFor

SpecFor == InitFor /\ [][NextFor]_vars

----------------------------------------------------------------------------
(* Properties of the for estimator *)

\* the integer an operand of the header resolves to
Resolves(operand) == operand = "literal" \/ TableHas(variableConstants, operand)

ValueOf(operand, literal) ==
    IF operand = "literal" THEN literal ELSE TableGet(variableConstants, operand)

StepResolves == request.update # "+=M"

StepValue == IF request.update = "++" THEN 1 ELSE StepLiteral.step

\* max(0, ceil((end - start) / step)) and its analogues
ForFormula(op, start, end, step) ==
    CASE op = "<" -> Max(0, CeilDiv(end - start, step))
      [] op = "<=" -> Max(0, CeilDiv(end - start + 1, step))
      [] op = ">" -> Max(0, CeilDiv(start - end, step))
      [] op = ">=" -> Max(0, CeilDiv(start - end + 1, step))

\* C23: the estimate of `for(init; cond; step)` is max(0, ceil((end-start)/step))
\* for `<`, with the analogous formulas for <=, > and >=, when start, end and
\* step all resolve to integers, and is the default of 100 whenever the start,
\* the end or the step cannot be resolved.
ForEstimate ==
    pc = "estimated" =>
        observed.iterations =
            IF Resolves(request.start) /\ Resolves(request.end) /\ StepResolves
            THEN ForFormula(request.op, ValueOf(request.start, 1),
                            ValueOf(request.end, LoopBound), StepValue)
            ELSE DEFAULT_LOOP_ITERATIONS

----------------------------------------------------------------------------
(* Comprehensions beside for loops *)

\* PythonTreeSitterAnalyzer.estimateComprehensionIterations
PyEstimateComprehensionIterations(node, vc) ==
    LET Range(args, r) ==
            IF Len(args) = 1 /\ r[1].ok THEN Some(r[1].v)
            ELSE IF Len(args) >= 2 /\ r[1].ok /\ r[2].ok
                 THEN Some(Max(0, r[2].v - r[1].v))
            ELSE Undefined
        Ranged(iterableNode) ==
            IF iterableNode.type = "call" /\ PyGetCallName(iterableNode) = "range"
            THEN Range(PyGetCallArguments(iterableNode),
                       [i \in 1..Len(PyGetCallArguments(iterableNode)) |->
                            PyResolveConstantExpr(
                                PyGetCallArguments(iterableNode)[i], vc)])
            ELSE Undefined
        Of(iterableNode, ranged) ==
            IF iterableNode = Nil THEN DEFAULT_LOOP_ITERATIONS
            ELSE IF ranged.ok THEN ranged.v
            ELSE IF iterableNode.type \in {"list", "tuple"}
            THEN Len(iterableNode.kids)
            ELSE IF iterableNode.type = "identifier" /\ TableHas(vc, iterableNode.text)
            THEN TableGet(vc, iterableNode.text)
            ELSE DEFAULT_LOOP_ITERATIONS
        Clause(forClause) ==
            IF forClause = Nil THEN DEFAULT_LOOP_ITERATIONS
            ELSE Of(Kid(forClause, Len(forClause.kids)),
                    Ranged(Kid(forClause, Len(forClause.kids))))
    IN Clause(FindKid(node, {"for_in_clause"}))

ComprehensionKinds ==
    {"list_comprehension", "set_comprehension", "dictionary_comprehension",
     "generator_expression"}

\* the texts of the string literals iterated over, quotes included: "" and "abc"
StringTexts == [empty |-> 2, abc |-> 5]

\* the constant tables the iterables are resolved in
IterableTables == {{}, {<<"N", 2>>}, {<<"N", -1>>}}

RangeArguments == {PyInt(LoopBound), PyInt(-1), PyName("N"), PyName("M")}

Iterables ==
    {PyCall("range", <<a>>) : a \in RangeArguments}
    \cup {PyCall("range", <<a, b>>) :
            a \in {PyInt(0), PyInt(1)}, b \in {PyInt(LoopBound), PyName("N")}}
    \cup {PyCall("range", <<a, PyInt(LoopBound + 1), s>>) :
            a \in {PyInt(0), PyInt(1)}, s \in {PyInt(2), PyInt(0)}}
    \cup {PyCall("enumerate", <<PyCall("range", <<a>>)>>) :
            a \in {PyInt(LoopBound), PyName("N")}}
    \cup {Leaf("string", "", StringTexts.empty), Leaf("string", "", StringTexts.abc)}
    \cup {Plain("list", <<PyInt(1), PyInt(2)>>), Plain("tuple", <<PyInt(1), PyInt(2)>>)}
    \cup {Plain("dictionary", <<Plain("pair", <<PyName("k"), PyInt(1)>>)>>)}
    \cup {PyCall("zip", <<PyName("a"), PyName("b")>>)}
    \cup {PyName("N"), PyName("M")}

\* [x for x in iterable], {x for ...}, {x: x for ...}, (x for ...)
ComprehensionOf(kind, iterable) ==
    Plain(kind,
          <<IF kind = "dictionary_comprehension"
            THEN Plain("pair", <<PyName("x"), PyName("x")>>)
            ELSE PyName("x"),
            Plain("for_in_clause", <<PyName("x"), iterable>>)>>)

ComprehensionInputs ==
    {[kind |-> kind, iterable |-> iterable, table |-> vc] :
        kind \in ComprehensionKinds, iterable \in Iterables, vc \in IterableTables}

\* both estimators on the iterable of the request
EstimateIterable ==
    /\ pc = "iterable"
    /\ observed' =
          [comprehension |-> PyEstimateComprehensionIterations(root, variableConstants),
           loop |-> PyEstimateForIterations(request.iterable, variableConstants)]
    /\ pc' = "estimated"
    /\ UNCHANGED <<lang, root, idx, functions, globalOperations, assumptions,
                   variableConstants, request>>
    /\ UNCHANGED registry

InitIterable ==
    /\ request \in ComprehensionInputs
    /\ lang = "python"
    /\ root = ComprehensionOf(request.kind, request.iterable)
    /\ pc = "iterable"
    /\ idx = 0
    /\ functions = <<>>
    /\ globalOperations = NewOperationCount
    /\ assumptions = <<>>
    /\ variableConstants = request.table
    /\ observed = [comprehension |-> 0, loop |-> 0]
    /\ RegistryAtLoad

NextIterable == EstimateIterable

SpecIterable == InitIterable /\ [][NextIterable]_vars

----------------------------------------------------------------------------
(* Properties of the comprehension estimator *)

\* C24: for every iterable expression and constant table, the iteration count
\* used for the `for` clause of a list, set, dict or generator comprehension
\* equals the count the for-loop estimator returns for the same iterable.
ComprehensionAsLoop ==
    pc = "estimated" => observed.comprehension = observed.loop

----------------------------------------------------------------------------
(* Repeated assignments to one name before a loop bounded by it *)

\* longest run of assignments to x
MaxAssignments == 3

\* right-hand sides: a literal, a division and a modulo by zero, an unbound name
RightSides == {"literal", "div0", "mod0", "name"}

AssignDialects == {"python", "javascript"}

RightSideNode(l, rhs) ==
    IF l = "python"
    THEN CASE rhs = "literal" -> PyInt(LoopBound)
           [] rhs = "div0" ->
                Node("binary_operator", "//", 0, <<"left", "right">>,
                     <<PyInt(1), PyInt(0)>>)
           [] rhs = "mod0" ->
                Node("binary_operator", "%", 0, <<"left", "right">>,
                     <<PyInt(1), PyInt(0)>>)
           [] rhs = "name" -> PyName("M")
    ELSE CASE rhs = "literal" -> CInt(LoopBound)
           [] rhs = "div0" -> CBinary("/", CInt(1), CInt(0))
           [] rhs = "mod0" -> CBinary("%", CInt(1), CInt(0))
           [] rhs = "name" -> Leaf("identifier", "M", 0)

\* x = rhs
AssignX(l, rhs) ==
    IF l = "python" THEN PyAssign("x", RightSideNode(l, rhs))
    ELSE Plain("expression_statement",
               <<Node("assignment_expression", "=", 0, <<"left", "right">>,
                      <<Leaf("identifier", "x", 0), RightSideNode(l, rhs)>>)>>)

\* the loop bounded by x: `for i in range(x): g()`, `for (i = 0; i < x; i++) g();`
LoopOverX(l) ==
    IF l = "python"
    THEN PyFor("i", PyCall("range", <<PyName("x")>>), <<PyStmt(PyCall("g", <<>>))>>)
    ELSE CFor("i", Leaf("identifier", "x", 0),
              Plain("compound_statement",
                    <<Plain("expression_statement", <<CCall("g", <<>>)>>)>>))

AssignInputs ==
    {[lang |-> l, rhs |-> seq] :
        l \in AssignDialects,
        seq \in UNION {[1..n -> RightSides] : n \in 1..MaxAssignments}}

AssignProgram(l, seq) ==
    Plain(IF l = "python" THEN "module" ELSE "program",
          [i \in 1..Len(seq) |-> AssignX(l, seq[i])] \o <<LoopOverX(l)>>)

\* analyze() on the program, and the estimate its table gives the loop
AnalyzeAssigned ==
    /\ pc = "assigned"
    /\ LET run == Analyze(lang, root, variableConstants)
       IN /\ functions' = run.result.functions
          /\ globalOperations' = run.result.globalOperations
          /\ assumptions' = run.result.assumptions
          /\ variableConstants' = run.table
          /\ observed' =
                [iterations |->
                    IF lang = "python"
                    THEN PyEstimateForIterations(
                             ChildForFieldName(LoopOverX(lang), "right"), run.table)
                    ELSE CEstimateForIterations(LoopOverX(lang), run.table)]
    /\ pc' = "analyzed"
    /\ UNCHANGED <<lang, root, idx, request>>
    /\ UNCHANGED registry

InitAssigned ==
    /\ request \in AssignInputs
    /\ lang = request.lang
    /\ root = AssignProgram(request.lang, request.rhs)
    /\ pc = "assigned"
    /\ idx = 0
    /\ functions = <<>>
    /\ globalOperations = NewOperationCount
    /\ assumptions = <<>>
    /\ variableConstants = {}
    /\ observed = [iterations |-> 0]
    /\ RegistryAtLoad

NextAssigned == AnalyzeAssigned

SpecAssigned == InitAssigned /\ [][NextAssigned]_vars

----------------------------------------------------------------------------
(* Properties of unresolved assignments *)

LastRightSide == request.rhs[Len(request.rhs)]

\* C25: when the right-hand side of an assignment to x fails to resolve, x is
\* not mapped in the constant table afterwards and a loop bounded by x is
\* estimated with the default iteration count, whatever assignments to x
\* came before it.
UnresolvedUnmapped ==
    (pc = "analyzed" /\ LastRightSide # "literal")
        => /\ ~TableHas(variableConstants, "x")
           /\ observed.iterations = DEFAULT_LOOP_ITERATIONS

----------------------------------------------------------------------------
(* A name assigned in one function and read as a loop bound elsewhere *)

ScopeDialects == {"python", "javascript"}

\* the places an assignment `k = value` is written
Scopes == {"A", "B", "global"}

\* the value each place assigns to k
AssignedIn == [A |-> 2, B |-> 4, global |-> 3]

\* k = value
AssignK(l, value) ==
    IF l = "python" THEN PyAssign("k", PyInt(value))
    ELSE Plain("expression_statement",
               <<Node("assignment_expression", "=", 0, <<"left", "right">>,
                      <<Leaf("identifier", "k", 0), CInt(value)>>)>>)

\* the loop bounded by k around one output call
LoopOverK(l) ==
    IF l = "python"
    THEN PyFor("i", PyCall("range", <<PyName("k")>>), <<LeafStmt(l, "io")>>)
    ELSE CFor("i", Leaf("identifier", "k", 0),
              Plain("compound_statement", <<LeafStmt(l, "io")>>))

FunctionOf(l, name, body) ==
    IF l = "python" THEN PyDef(name, body)
    ELSE NamedDef(l, "function_declaration", name, body)

\* the top-level item of each kind: function A, function B, the global loop
ScopeItem(l, item, assigned) ==
    CASE item = "A" ->
            FunctionOf(l, "A", (IF "A" \in assigned
                                THEN <<AssignK(l, AssignedIn.A)>> ELSE <<>>)
                               \o <<LeafStmt(l, "call")>>)
      [] item = "B" ->
            FunctionOf(l, "B", (IF "B" \in assigned
                                THEN <<AssignK(l, AssignedIn.B)>> ELSE <<>>)
                               \o <<LoopOverK(l)>>)
      [] item = "loop" -> LoopOverK(l)

ScopeOrders ==
    {order \in [1..3 -> {"A", "B", "loop"}] :
        \A i, j \in 1..3 : i # j => order[i] # order[j]}

ScopeProgram(l, order, assigned) ==
    Plain(IF l = "python" THEN "module" ELSE "program",
          (IF "global" \in assigned THEN <<AssignK(l, AssignedIn.global)>> ELSE <<>>)
          \o [i \in 1..3 |-> ScopeItem(l, order[i], assigned)])

ScopeInputs ==
    {[lang |-> l, order |-> order, assigned |-> assigned] :
        l \in ScopeDialects, order \in ScopeOrders, assigned \in SUBSET Scopes}

\* analyze() on the program
AnalyzeScopes ==
    /\ pc = "scopes"
    /\ LET run == Analyze(lang, root, variableConstants)
       IN /\ functions' = run.result.functions
          /\ globalOperations' = run.result.globalOperations
          /\ assumptions' = run.result.assumptions
          /\ variableConstants' = run.table
    /\ pc' = "analyzed"
    /\ UNCHANGED <<lang, root, idx, observed, request>>
    /\ UNCHANGED registry

InitScopes ==
    /\ request \in ScopeInputs
    /\ lang = request.lang
    /\ root = ScopeProgram(request.lang, request.order, request.assigned)
    /\ pc = "scopes"
    /\ idx = 0
    /\ functions = <<>>
    /\ globalOperations = NewOperationCount
    /\ assumptions = <<>>
    /\ variableConstants = {}
    /\ observed = NoResult
    /\ RegistryAtLoad

NextScopes == AnalyzeScopes

SpecScopes == InitScopes /\ [][NextScopes]_vars

----------------------------------------------------------------------------
(* Properties of constant scoping *)

\* the operation the call in the loop body is counted as: print is output in
\* Python, printf is a plain call in JavaScript
BodyCall == IF lang = "python" THEN "io_operation" ELSE "function_call"

\* the body calls counted for function B: the iterations of its loop
IterationsInB ==
    LET b == CHOOSE i \in 1..Len(functions) : functions[i].name[2] = "B"
    IN functions[b].operations[BodyCall]

\* the body calls counted at global scope: the iterations of the global loop
IterationsAtGlobal == globalOperations[BodyCall]

\* the iteration counts the assignments visible from a scope allow
Visible(scopes) ==
    IF request.assigned \cap scopes = {} THEN {DEFAULT_LOOP_ITERATIONS}
    ELSE {AssignedIn[s] : s \in request.assigned \cap scopes}

\* C26: an identifier assigned a constant only inside the body of function A
\* is not resolved while walking function B or the global statements: the
\* loop in B is bounded only by global assignments and B's own, the global
\* loop only by global assignments.
ConstantsScoped ==
    pc = "analyzed" =>
        /\ IterationsInB \in Visible({"B", "global"})
        /\ IterationsAtGlobal \in Visible({"global"})

----------------------------------------------------------------------------
(* analyzeCodeByDepth line by line *)

BracePlacements == {"same", "next", "oneline", "braceless"}

\* iterations of the loop around the loop under test, 0 for none around it
OuterLoops == {0, 2}

\* longest run of lines after the loop
MaxLater == 2

\* the header of each loop kind, without a brace
ScanHeader(kind, n) ==
    CASE kind = "for" -> SubSeq(ForHeader(n), 1, Len(ForHeader(n)) - 1)
      [] kind = "while" ->
            <<Word("while"), Mark("("), Word("i"), Mark("<"), Digits(n), Mark(")")>>
      [] kind = "for-each" ->
            <<Word("for"), Mark("("), Word("int"), Word("x"), Mark(":"), Word("xs"),
              Mark(")")>>

\* g();
ScanBody == CallTokens("g", <<>>) \o <<Mark(";")>>

\* the lines of a loop under each brace placement
LoopLines(kind, n, placement) ==
    CASE placement = "same" ->
            <<ScanHeader(kind, n) \o <<Mark("{")>>, ScanBody, <<Mark("}")>>>>
      [] placement = "next" ->
            <<ScanHeader(kind, n), <<Mark("{")>>, ScanBody, <<Mark("}")>>>>
      [] placement = "oneline" ->
            <<ScanHeader(kind, n) \o <<Mark("{")>> \o ScanBody \o <<Mark("}")>>>>
      [] placement = "braceless" -> <<ScanHeader(kind, n), ScanBody>>

\* the body of a function: the loop, `later` lines after it, and possibly a
\* loop around both; `header` and `closing` are the lines of the loop's header
\* and of the end of its body
ScanInput(kind, n, placement, later, outer) ==
    LET before == IF outer = 0 THEN <<>> ELSE <<ForHeader(outer)>>
        after == IF outer = 0 THEN <<>> ELSE <<<<Mark("}")>>>>
    IN [kind |-> kind, placement |-> placement,
        lines |-> before \o LoopLines(kind, n, placement)
                  \o [i \in 1..later |-> PrintfTokens] \o after,
        header |-> Len(before) + 1,
        closing |-> Len(before) + Len(LoopLines(kind, n, placement)),
        later |-> later]

ScanInputs ==
    {ScanInput(kind, n, placement, later, outer) :
        kind \in {"for", "while"}, n \in Bounds, placement \in BracePlacements,
        later \in 1..MaxLater, outer \in OuterLoops}
    \cup {ScanInput("for-each", 0, placement, later, outer) :
            placement \in BracePlacements, later \in 1..MaxLater,
            outer \in OuterLoops}

\* the scanner before the first line; `multipliers` keeps currentMultiplier of
\* every line scanned
ScanStart ==
    [loopStack |-> <<>>, braceDepth |-> 0, ops |-> NewOperationCount,
     multipliers |-> <<>>]

\* one turn of the loop over the lines in analyzeCodeByDepth
ScanLine ==
    /\ pc = "scan"
    /\ idx < Len(request.lines)
    /\ LET line == request.lines[idx + 1]
           after == CountBraces(line, 1, observed.loopStack, observed.braceDepth)
           currentMultiplier == StackProduct(after.loopStack)
           kind == LoopKind(line)
           iterations ==
               CASE kind = "for-loop" ->
                        RxForIterationsFromHeader(line, variableConstants)
                 [] kind = "while-loop" ->
                        RxWhileIterationsFromCondition(line, variableConstants)
                 [] OTHER -> DEFAULT_LOOP_ITERATIONS
       IN observed' =
            IF Len(line) = 0
            THEN [observed EXCEPT !.multipliers = Append(@, 0)]
            ELSE IF kind # ""
            THEN [loopStack |-> Append(after.loopStack,
                                       [iterations |-> iterations,
                                        braceDepth |-> after.braceDepth]),
                  braceDepth |-> after.braceDepth,
                  ops |-> Add(observed.ops, "comparison",
                              currentMultiplier * iterations),
                  multipliers |-> Append(observed.multipliers, currentMultiplier)]
            ELSE [loopStack |-> after.loopStack,
                  braceDepth |-> after.braceDepth,
                  ops |-> Merge(observed.ops,
                                RxCountLineOperations(lang, line, currentMultiplier)),
                  multipliers |-> Append(observed.multipliers, currentMultiplier)]
    /\ idx' = idx + 1
    /\ pc' = IF idx + 1 = Len(request.lines) THEN "scanned" ELSE "scan"
    /\ UNCHANGED <<lang, root, functions, globalOperations, assumptions,
                   variableConstants, request>>
    /\ UNCHANGED registry

InitScan ==
    /\ request \in ScanInputs
    /\ lang = "c"
    /\ root = Nil
    /\ pc = "scan"
    /\ idx = 0
    /\ functions = <<>>
    /\ globalOperations = NewOperationCount
    /\ assumptions = <<>>
    /\ variableConstants = {}
    /\ observed = ScanStart
    /\ RegistryAtLoad

NextScan == ScanLine

SpecScan == InitScan /\ [][NextScan]_vars

----------------------------------------------------------------------------
(* Properties of the scanner *)

\* the lines after the end of the loop's body, up to the end of the run of
\* statements that follows it
LaterLines == (request.closing + 1)..(request.closing + request.later)

\* C27: once the scanner has passed the line that closes a loop's body, the
\* loop no longer contributes to the current multiplier: every later line is
\* counted at the multiplier in force before the loop header, whatever the
\* brace placement.
LoopLeftBehind ==
    \A i \in LaterLines :
        i <= Len(observed.multipliers)
            => observed.multipliers[i] = observed.multipliers[request.header]

----------------------------------------------------------------------------
(* Loop nesting as both analyzers report it *)

\* most loop nests written one after another in a function
MaxLoops == 2

\* a function body as a sequence of loop nests, each given by its depth
LoopShapes == UNION {[1..n -> 1..MaxDepth] : n \in 1..MaxLoops}

NestingDialects == {"python", "c"}

\* the target of the loop at a depth
LoopTarget(d) == IF d = 1 THEN "i" ELSE IF d = 2 THEN "j" ELSE "k"

\* `while ( i < n ) {`
WhileHeader(n) ==
    <<Word("while"), Mark("("), Word("i"), Mark("<"), Digits(n), Mark(")"), Mark("{")>>

\* the lines of a nest of `depth` loops from depth d on, around a call of g
RECURSIVE NestLines(_, _, _, _)
NestLines(l, n, d, depth) ==
    IF d > depth
    THEN <<TextLine(4 * (d + 1),
                    CallTokens("g", <<>>) \o (IF l = "python" THEN <<>> ELSE <<Mark(";")>>))>>
    ELSE IF l = "python"
    THEN <<RangeLine(4 * d, LoopTarget(d), Digits(n))>>
         \o NestLines(l, n, d + 1, depth)
    ELSE <<TextLine(4 * d, WhileHeader(n))>> \o NestLines(l, n, d + 1, depth)
         \o <<TextLine(4 * d, <<Mark("}")>>)>>

\* the statement of the same nest
RECURSIVE NestNode(_, _, _, _)
NestNode(l, n, d, depth) ==
    IF d > depth THEN LeafStmt(l, "call")
    ELSE IF l = "python"
    THEN PyFor(LoopTarget(d), PyCall("range", <<PyInt(n)>>),
               <<NestNode(l, n, d + 1, depth)>>)
    ELSE CWhile(CBinary("<", Leaf("identifier", "i", 0), CInt(n)),
                Plain("compound_statement", <<NestNode(l, n, d + 1, depth)>>))

RECURSIVE ShapeLines(_, _, _, _)
ShapeLines(l, n, shape, i) ==
    IF i > Len(shape) THEN <<>>
    ELSE NestLines(l, n, 1, shape[i]) \o ShapeLines(l, n, shape, i + 1)

\* the function f holding the nests of the shape, every loop bounded by n, as
\* text and as a tree
LoopSource(l, n, shape) ==
    [name |-> "nests", numbers |-> <<n>>, shape |-> shape, lang |-> l, function |-> "f",
     text |-> IF l = "python"
              THEN <<DefLine("f")>> \o ShapeLines(l, n, shape, 1)
              ELSE <<TextLine(0, <<Word("int")>> \o CallTokens("f", <<>>)
                                 \o <<Mark("{")>>)>>
                   \o ShapeLines(l, n, shape, 1) \o <<TextLine(0, <<Mark("}")>>)>>,
     root |-> IF l = "python"
              THEN Plain("module",
                         <<PyDef("f", [i \in 1..Len(shape) |->
                                          NestNode(l, n, 1, shape[i])])>>)
              ELSE Plain("translation_unit",
                         <<CDef("f", [i \in 1..Len(shape) |->
                                         NestNode(l, n, 1, shape[i])])>>)]

LoopSources ==
    {LoopSource(l, n, shape) :
        l \in NestingDialects, n \in Bounds, shape \in LoopShapes}

InitNesting ==
    /\ request \in LoopSources
    /\ lang = request.lang
    /\ root = request.root
    /\ pc = "source"
    /\ idx = 0
    /\ functions = <<>>
    /\ globalOperations = NewOperationCount
    /\ assumptions = <<>>
    /\ variableConstants = {}
    /\ observed = NoResult
    /\ RegistryAtLoad

NextNesting == AnalyzeByRegex \/ AnalyzeByTree

SpecNesting == InitNesting /\ [][NextNesting]_vars

----------------------------------------------------------------------------
(* Properties of max_loop_nesting *)

\* the most loops around any point of the function of the request
RECURSIVE DeepestNest(_, _)
DeepestNest(shape, i) ==
    IF i > Len(shape) THEN 0 ELSE Max(shape[i], DeepestNest(shape, i + 1))

\* C28: max_loop_nesting reported by the textual fallback equals the value the
\* AST walkers report, the maximum number of loops simultaneously enclosing
\* any point of the function, so that sequential loops give 1.
NestingAgrees ==
    (pc = "both" /\ Len(observed.functions) = 1 /\ Len(functions) = 1)
        => /\ observed.functions[1].maxNesting = functions[1].maxNesting
           /\ observed.functions[1].maxNesting = DeepestNest(request.shape, 1)

----------------------------------------------------------------------------
(* The cache of an uninitialized registry *)

\* C29: in every reachable state of the parser registry, if the runtime is
\* marked uninitialized then the parser cache is empty; a grammar load in
\* flight when dispose ran does not insert a parser after dispose returned.
UninitializedCacheEmpty == ~initialized => parserCache = {}

----------------------------------------------------------------------------
(* extension.ts: the analysis runner *)

\* runAnalysis calls made in a run
MaxRuns == 3

\* the documents of the editors, by uri
Docs == {"a.py", "b.c"}

\* the extension after activate(): module variables isAnalyzing and
\* resultCache (0: no entry, otherwise the number of the runAnalysis call whose
\* result is cached), the provider's _view ("none" before resolveWebviewView,
\* then "live" or "disposed"), _isAnalyzing and _result, the editor in front
\* ("" for none), the setting autoAnalyzeOnSave, the estimate calls awaited by
\* runAnalysis, and how the last runAnalysis call went on
Activated ==
    [isAnalyzing |-> FALSE, resultCache |-> [d \in Docs |-> 0],
     _view |-> "none", _isAnalyzing |-> FALSE, _result |-> 0,
     activeTextEditor |-> "", autoAnalyzeOnSave |-> FALSE,
     inFlight |-> <<>>, runs |-> 0, last |-> ""]

\* CarbonDashboardProvider.render: assigning webview.html of a view that was
\* disposed throws; without a view it returns at once
RenderThrows(o) == o._view = "disposed"

\* CarbonDashboardProvider.updateResult up to render()
UpdateResult(o, result) == [o EXCEPT !._result = result, !._isAnalyzing = FALSE]

\* runAnalysis() up to its return or to the await of withProgress
RunAnalysis(o) ==
    LET called == [o EXCEPT !.runs = @ + 1]
        flagged == [called EXCEPT !.isAnalyzing = TRUE, !._isAnalyzing = TRUE]
    IN IF o.activeTextEditor = "" THEN [called EXCEPT !.last = "no editor"]
       ELSE IF o.isAnalyzing THEN [called EXCEPT !.last = "in progress"]
       ELSE IF RenderThrows(flagged) THEN [flagged EXCEPT !.last = "threw"]
       ELSE [flagged EXCEPT !.last = "started",
                            !.inFlight = Append(@, [doc |-> o.activeTextEditor,
                                                    run |-> called.runs])]

Without(calls, i) == SubSeq(calls, 1, i - 1) \o SubSeq(calls, i + 1, Len(calls))

\* the rest of the extension's state is not touched by the runner
RunnerFrame ==
    /\ UNCHANGED <<lang, root, pc, idx, functions, globalOperations, assumptions,
                   variableConstants, request>>
    /\ UNCHANGED registry

\* the command watttrace.analyzeCurrentFile
AnalyzeCommand ==
    /\ pc = "extension"
    /\ observed.runs < MaxRuns
    /\ observed' = RunAnalysis(observed)
    /\ RunnerFrame

\* onDidSaveTextDocument(doc)
SaveEvent(doc) ==
    /\ pc = "extension"
    /\ observed.runs < MaxRuns
    /\ observed' = IF observed.autoAnalyzeOnSave /\ observed.activeTextEditor = doc
                   THEN RunAnalysis(observed)
                   ELSE observed
    /\ RunnerFrame

\* the awaited estimate resolves: the rest of the try block, then finally
EstimateResolves(i) ==
    /\ pc = "extension"
    /\ i \in 1..Len(observed.inFlight)
    /\ LET call == observed.inFlight[i]
           cached == [observed EXCEPT !.resultCache[call.doc] = call.run]
       IN observed' = [UpdateResult(cached, call.run) EXCEPT
                          !.isAnalyzing = FALSE,
                          !.inFlight = Without(@, i)]
    /\ RunnerFrame

\* the awaited estimate rejects: catch, then finally
EstimateRejects(i) ==
    /\ pc = "extension"
    /\ i \in 1..Len(observed.inFlight)
    /\ observed' = [observed EXCEPT !.isAnalyzing = FALSE,
                                    !.inFlight = Without(@, i)]
    /\ RunnerFrame

\* onDidChangeActiveTextEditor(editor)
ActiveEditorChanges(doc) ==
    /\ pc = "extension"
    /\ doc # observed.activeTextEditor
    /\ LET shown == [observed EXCEPT !.activeTextEditor = doc]
       IN observed' = IF doc # "" /\ observed.resultCache[doc] # 0
                      THEN UpdateResult(shown, observed.resultCache[doc])
                      ELSE shown
    /\ RunnerFrame

\* the setting watttrace.autoAnalyzeOnSave is changed
SettingChanges ==
    /\ pc = "extension"
    /\ observed' = [observed EXCEPT !.autoAnalyzeOnSave = ~@]
    /\ RunnerFrame

\* CarbonDashboardProvider.resolveWebviewView
ResolveWebviewView ==
    /\ pc = "extension"
    /\ observed._view # "live"
    /\ observed' = [observed EXCEPT !._view = "live"]
    /\ RunnerFrame

\* the user hides the dashboard: the view is disposed, the provider keeps it
ViewDisposed ==
    /\ pc = "extension"
    /\ observed._view = "live"
    /\ observed' = [observed EXCEPT !._view = "disposed"]
    /\ RunnerFrame

InitRunner ==
    /\ lang = ""
    /\ root = Nil
    /\ pc = "extension"
    /\ idx = 0
    /\ functions = <<>>
    /\ globalOperations = NewOperationCount
    /\ assumptions = <<>>
    /\ variableConstants = {}
    /\ observed = Activated
    /\ request = NoRequest
    /\ RegistryAtLoad

NextRunner ==
    \/ AnalyzeCommand
    \/ \E doc \in Docs : SaveEvent(doc)
    \/ \E i \in 1..MaxRuns : EstimateResolves(i)
    \/ \E i \in 1..MaxRuns : EstimateRejects(i)
    \/ \E doc \in Docs \cup {""} : ActiveEditorChanges(doc)
    \/ SettingChanges
    \/ ResolveWebviewView
    \/ ViewDisposed

SpecRunner == InitRunner /\ [][NextRunner]_vars

----------------------------------------------------------------------------
(* Properties of the runner *)

\* a runAnalysis call is made in this step
Requested == observed'.runs = observed.runs + 1

\* at most one estimate started by runAnalysis is in flight
OneInFlight == Len(observed.inFlight) <= 1

\* a request arriving while an analysis is in flight starts nothing and leaves
\* the result cache alone
BusyRejects ==
    [][(Requested /\ observed.inFlight # <<>>)
          => /\ observed'.inFlight = observed.inFlight
             /\ observed'.resultCache = observed.resultCache
             /\ observed'.last \in {"in progress", "no editor"}]_vars

\* the flag is false whenever no analysis is in flight
IdleUnflagged == observed.inFlight = <<>> => ~observed.isAnalyzing

\* C30: for any interleaving of analyze commands and save events at most one
\* estimate call started by runAnalysis is in flight at a time; a request
\* arriving while one is in flight is rejected without starting an analysis or
\* changing the result cache; and the in-progress flag is false again
\* whenever no analysis is in flight, whether the analysis succeeded or failed.
ExclusiveAnalysis == []OneInFlight /\ BusyRejects /\ []IdleUnflagged

====
